---- MODULE Spec2Model ----
(***************************************************************************)
(* Claude runner control channel of untether:                              *)
(*   src/src/untether/runners/claude.py                                    *)
(*   src/src/untether/telegram/commands/claude_control.py                  *)
(*                                                                         *)
(* One ClaudeRunner instance serves every run.  A run is one invocation of *)
(* run_impl: it spawns a subprocess in control-channel mode (permission    *)
(* mode "plan" or "auto"), reads its stdout line by line, translates each  *)
(* line, yields the events and drains the automatic responses to the       *)
(* subprocess's stdin.  The stdin handle of run r is named r.  Callback    *)
(* tasks deliver button clicks and text answers; a task is suspended while *)
(* it awaits the stdin write.                                              *)
(***************************************************************************)
EXTENDS Integers, Sequences, FiniteSets, TLC

None == "None"

Sessions == {"S1", "S2"}
Runs == {"r1", "r2", "r3"}
Tasks == {"t1", "t2"}
Absent == "absent"

\* Bounds of the model: stdout lines read and control requests sent by the
\* agents, each counted over all runs; and callbacks delivered, as many as
\* there are tasks to handle them at the same time.
MaxLines == 3
MaxReq == 2
MaxCallbacks == Cardinality(Tasks)

\* The instants at which the model looks at the clock.
TimePoints == {0, 30, 31}

\* Program constants.
DISCUSS_COOLDOWN_BASE_SECONDS == 30
DISCUSS_COOLDOWN_MAX_SECONDS == 120
CONTROL_TIMEOUT_SECONDS == 300
HANDLED_REQUESTS_CAP == 100

ToolsRequiringApproval == {"ExitPlanMode", "AskUserQuestion"}
ToolNames == {"Bash", "ExitPlanMode", "AskUserQuestion"}

VARIABLES
    now,               \* time.time(), in seconds
    ActiveRunners,     \* _ACTIVE_RUNNERS: session_id -> registration time
    SessionStdin,      \* _SESSION_STDIN: session_id -> stdin handle
    RequestToSession,  \* _REQUEST_TO_SESSION
    RequestToInput,    \* _REQUEST_TO_INPUT
    HandledRequests,   \* _HANDLED_REQUESTS
    DiscussCooldown,   \* _DISCUSS_COOLDOWN: session_id -> [ts, count]
    DiscussApproved,   \* _DISCUSS_APPROVED
    PendingAsk,        \* _PENDING_ASK_REQUESTS, in insertion order
    procStdin,         \* ClaudeRunner._proc_stdin of the shared runner
    run,               \* per run: locals of run_impl, JsonlStreamState, ClaudeStreamState
    task,              \* per callback task: its position in the handler
    written,           \* request_id -> the control_response lines written for it
    reqs,              \* request_id -> the control_request as the agent sent it
    buttons,           \* callback data of the inline keyboards yielded so far
    calls,             \* request_id -> outcomes of the send calls made for it
    clears,            \* how many times _HANDLED_REQUESTS was cleared
    nlines,            \* stdout lines read so far, over all runs
    ncalls,            \* callbacks delivered so far
    limits,            \* the bounds this behaviour is explored under
    cdlog,             \* the last call of a cooldown function, where these are
                       \* called on their own
    swept,             \* the calls of cleanup_expired_sessions and what the last
                       \* one returned
    cbq,               \* the callback query _dispatch_callback is working on
    chatStore,         \* the state of the ChatSessionStore
    sched,             \* the cron scheduler: run_cron_scheduler's locals and the clock
    hook               \* the webhook server: the rate limiter's buckets and the requests handled

vars == <<now, ActiveRunners, SessionStdin, RequestToSession, RequestToInput,
          HandledRequests, DiscussCooldown, DiscussApproved, PendingAsk,
          procStdin, run, task, written, reqs, buttons, calls, clears,
          nlines, ncalls, limits, cdlog, swept, cbq, chatStore, sched, hook>>

----------------------------------------------------------------------------
\* dict helpers

EmptyMap == [x \in {} |-> None]

Put(f, k, v) == [x \in (DOMAIN f) \cup {k} |-> IF x = k THEN v ELSE f[x]]

Pop(f, k) == [x \in (DOMAIN f) \ {k} |-> f[x]]

Get(f, k) == IF k \in DOMAIN f THEN f[k] ELSE None

Min(a, b) == IF a < b THEN a ELSE b

RemoveFirst(s, x) ==
    SelectSeq(s, LAMBDA y: y # x)

----------------------------------------------------------------------------
\* Request ids.  The agent's ids are 1, 2, ...; the synthetic id
\* f"da:{session_id}" is the negative number of the session.

SessNum(s) == IF s = "S1" THEN 1 ELSE 2

DaId(s) == 0 - SessNum(s)

IsDa(q) == q < 0

DaSession(q) == IF q = 0 - 1 THEN "S1" ELSE "S2"

\* The tool input of the agent's request q: an opaque payload, a different one
\* for each request.
NoInput == 0

ToolInput(q) == q

----------------------------------------------------------------------------
\* Discuss cooldown

\* Mutant: the window grows with every click and has no upper limit
CooldownSecondsUncapped(count) == DISCUSS_COOLDOWN_BASE_SECONDS * count

CooldownSeconds(count) ==
    Min(DISCUSS_COOLDOWN_BASE_SECONDS * count, DISCUSS_COOLDOWN_MAX_SECONDS)

SetDiscussCooldown(cd, s, t) ==
    Put(cd, s, [ts |-> t, count |-> IF s \in DOMAIN cd THEN cd[s].count + 1 ELSE 1])

\* Mutant: the window is over as soon as its last second is reached
CooldownActiveBeforeEnd(cd, s, t) ==
    /\ s \in DOMAIN cd
    /\ t - cd[s].ts < CooldownSeconds(cd[s].count)

\* check_discuss_cooldown: TRUE when the escalation message is returned
CooldownActive(cd, s, t) ==
    /\ s \in DOMAIN cd
    /\ ~(t - cd[s].ts > CooldownSeconds(cd[s].count))

\* Mutant: a check that finds the window over forgets the entry
CooldownAfterCheckForgets(cd, s, t) ==
    IF s \in DOMAIN cd /\ t - cd[s].ts > CooldownSeconds(cd[s].count)
    THEN Pop(cd, s)
    ELSE cd

\* check_discuss_cooldown: the registry after the check
CooldownAfterCheck(cd, s, t) ==
    IF s \in DOMAIN cd /\ t - cd[s].ts > CooldownSeconds(cd[s].count)
    THEN Put(cd, s, [ts |-> 0, count |-> cd[s].count])
    ELSE cd

ClearDiscussCooldown(cd, s) == Pop(cd, s)

----------------------------------------------------------------------------
\* Control responses

\* Mutant: the deny branch echoes the stored tool input as the allow branch does
InnerResponseDenyEchoesInput(q, approved, msg, rti) ==
    [behavior |-> IF approved THEN "allow" ELSE "deny",
     updatedInput |-> IF q \in DOMAIN rti THEN rti[q] ELSE NoInput,
     message |-> IF approved THEN Absent ELSE msg]

\* The inner response object built by write_control_response
InnerResponse(q, approved, msg, rti) ==
    IF approved
    THEN [behavior |-> "allow",
          updatedInput |-> IF q \in DOMAIN rti THEN rti[q] ELSE NoInput,
          message |-> Absent]
    ELSE [behavior |-> "deny", updatedInput |-> NoInput, message |-> msg]

\* The response object built by _drain_auto_approve
AutoApproveResponse(q) ==
    [behavior |-> "allow", updatedInput |-> NoInput, message |-> Absent]

\* The response object built by _drain_auto_deny
AutoDenyResponse(q, msg) ==
    [behavior |-> "deny", updatedInput |-> NoInput, message |-> msg]

\* stdin_to_use = session_stdin or self._proc_stdin
StdinToUse(q, rts, ss, ps) ==
    LET sid == Get(rts, q)
        sessionStdin == IF sid # None THEN Get(ss, sid) ELSE None
    IN IF sessionStdin # None THEN sessionStdin ELSE ps

\* what pipe.send raises: ClosedResourceError on a handle that was closed,
\* OSError (EPIPE) when the subprocess no longer reads its stdin
SendError(h) ==
    IF h = None THEN None
    ELSE IF ~run[h].open THEN "ClosedResourceError"
    ELSE IF run[h].broken THEN "OSError"
    ELSE None

\* Mutant: only the closed handle is caught
CatchesClosedOnly(err) == err = "ClosedResourceError"

\* except (OSError, anyio.ClosedResourceError) around every pipe.send
WriteErrorCaught(err) == err \in {"OSError", "ClosedResourceError"}

\* pipe.send(line): the line reaches the subprocess when the handle is open
Send(w, h, q, inner) ==
    IF h # None /\ SendError(h) = None
    THEN [w EXCEPT ![q] = Append(@, [handle |-> h] @@ inner)]
    ELSE w

RECURSIVE SendAll(_, _, _)
SendAll(w, h, items) ==
    IF items = <<>> THEN w
    ELSE SendAll(Send(w, h, Head(items).rid, Head(items).inner), h, Tail(items))

----------------------------------------------------------------------------
\* Mutant: the auto-mode bypass is applied to every tool
AutoModeApprovesEveryTool(tool, auto, approved, cooling) ==
    IF tool \notin ToolsRequiringApproval \/ auto THEN "auto_approve"
    ELSE IF tool = "ExitPlanMode" /\ approved THEN "discuss_approved"
    ELSE IF tool = "ExitPlanMode" /\ cooling THEN "cooldown_deny"
    ELSE "interactive"

\* Mutant: the rate limit of ExitPlanMode is applied before the auto-mode bypass
CooldownBeforeAutoMode(tool, auto, approved, cooling) ==
    IF tool \notin ToolsRequiringApproval THEN "auto_approve"
    ELSE IF tool = "ExitPlanMode" /\ cooling THEN "cooldown_deny"
    ELSE IF tool = "ExitPlanMode" /\ auto THEN "auto_approve"
    ELSE IF tool = "ExitPlanMode" /\ approved THEN "discuss_approved"
    ELSE "interactive"

\* Mutant: ExitPlanMode is not rate-limited after a discuss denial
ClassWithoutCooldown(tool, auto, approved, cooling) ==
    IF tool \notin ToolsRequiringApproval THEN "auto_approve"
    ELSE IF tool = "ExitPlanMode" /\ auto THEN "auto_approve"
    ELSE IF tool = "ExitPlanMode" /\ approved THEN "discuss_approved"
    ELSE "interactive"

\* Classification of a can_use_tool control request by translate_claude_event.
\*   approved: factory.resume is set and the session is in _DISCUSS_APPROVED
\*   cooling:  factory.resume is set and check_discuss_cooldown returns a message
ToolRequestClass(tool, auto, approved, cooling) ==
    IF tool \notin ToolsRequiringApproval THEN "auto_approve"
    ELSE IF tool = "ExitPlanMode" /\ auto THEN "auto_approve"
    ELSE IF tool = "ExitPlanMode" /\ approved THEN "discuss_approved"
    ELSE IF tool = "ExitPlanMode" /\ cooling THEN "cooldown_deny"
    ELSE "interactive"

\* Mutant: the queues are drained only after a line that produced events
DrainOnlyAfterEvents(nEvents) == nEvents > 0

\* _iter_jsonl_events drains both queues after every line
DrainAfterLine(nEvents) == TRUE

\* Mutant: the stream loop goes on reading stdout after the CompletedEvent
NeverBreaks(didEmit) == FALSE

\* _iter_jsonl_events: if stream.did_emit_completed: break
BreakAfterCompleted(didEmit) == didEmit

\* where run_impl goes after a stdout line has been handled
NextPc(rec, nEvents) ==
    IF (rec.approveQ # <<>> \/ rec.denyQ # <<>>) /\ DrainAfterLine(nEvents) THEN "drain"
    ELSE IF BreakAfterCompleted(rec.didEmit) THEN "closing"
    ELSE "read"

\* no _DISCUSS_COOLDOWN entry
NoEntry == [ts |-> 0 - 1, count |-> 0]

\* the lengths of the assistant text blocks read
TextLengths == {199, 200}

\* no cooldown function has been called: sets counts the set_discuss_cooldown
\* calls since the last clear_discuss_cooldown, age is the age of the entry a
\* check_discuss_cooldown call found, expired tells that a check since the last
\* clear found the window over, flip changes with every call
NoCooldownCall ==
    [sets |-> 0, op |-> None, res |-> None, age |-> 0 - 1, expired |-> FALSE,
     flip |-> FALSE]

\* _dispatch_callback is not running; acks are the answer_callback_query calls
\* of the dispatch, each with its text and the number of handle() calls begun
NoDispatch ==
    [pc |-> "idle", id |-> None, backend |-> None, early |-> FALSE, toast |-> None,
     outcome |-> None, answered |-> FALSE, acks |-> <<>>, handled |-> 0, n |-> 0]

\* _new_state(): no cwd recorded, no chats; cleared and everStored are history:
\* the last sync cleared the sessions and nothing was stored since, a token was
\* stored at some time
NewStore == [cwd |-> None, chats |-> <<>>, cleared |-> FALSE, everStored |-> FALSE]

\* run_cron_scheduler has not been called; t is the wall clock in minutes since
\* the midnight of the first day, fired and tickedAt are history: the number of
\* dispatch_cron calls the last tick made for each cron, and the minute the
\* last tick read
NoScheduler ==
    [pc |-> "off", crons |-> <<>>, t |-> 0, lastFired |-> <<>>, fired |-> <<>>,
     tickedAt |-> 0 - 1]

\* the webhook application as build_webhook_app returns it: the limiter has no
\* bucket, clock is time.monotonic() in seconds; n, dispatches, last and before
\* are history: the requests handled, the dispatch_webhook calls begun, the
\* last request with its response, and the buckets it found
NoRequests ==
    [buckets |-> <<>>, clock |-> 0, n |-> 0, dispatches |-> 0,
     last |-> [req |-> None, status |-> None, dispatched |-> 0, at |-> 0],
     before |-> <<>>]

\* cleanup_expired_sessions has not been called
NoSweep == [calls |-> 0, returned |-> 0]

\* the initial state of the parts of the program beside the control channel
AsideInit ==
    /\ cbq = NoDispatch
    /\ chatStore = NewStore
    /\ sched = NoScheduler
    /\ hook = NoRequests

NewRun ==
    [pc |-> "new", resume |-> None, sid |-> None, auto |-> FALSE,
     factoryResume |-> None, foundSession |-> None, didEmit |-> FALSE,
     regSid |-> None, approveQ |-> <<>>, denyQ |-> <<>>, pcr |-> EmptyMap,
     events |-> <<>>, open |-> FALSE,
     arSet |-> 0, ssSet |-> 0, arDel |-> 0, ssDel |-> 0,
     lastText |-> 0, outline |-> [stamp |-> NoEntry, len |-> 0],
     completions |-> <<>>,
     pendingActions |-> {}, lastToolUseId |-> None, controlActionForTool |-> EmptyMap,
     noteSeq |-> 0, actions |-> <<>>, asker |-> EmptyMap,
     broken |-> FALSE, failedAt |-> 0 - 1,
     malformed |-> 0, malformedAt |-> 0 - 1]

IdleTask == [pc |-> "idle", kind |-> None, q |-> 0, sid |-> None]

Base ==
    /\ now = 0
    /\ ActiveRunners = EmptyMap
    /\ SessionStdin = EmptyMap
    /\ RequestToSession = EmptyMap
    /\ RequestToInput = EmptyMap
    /\ HandledRequests = {}
    /\ DiscussCooldown = EmptyMap
    /\ DiscussApproved = {}
    /\ PendingAsk = <<>>
    /\ procStdin = None
    /\ run = [r \in Runs |-> NewRun]
    /\ task = [t \in Tasks |-> IdleTask]
    /\ written = EmptyMap
    /\ reqs = EmptyMap
    /\ buttons = {}
    /\ calls = EmptyMap
    /\ clears = 0
    /\ nlines = 0
    /\ ncalls = 0
    /\ cdlog = NoCooldownCall
    /\ swept = NoSweep
    /\ AsideInit

Init ==
    /\ Base
    /\ limits = [runs |-> {"r1"}, lines |-> MaxLines, reqs |-> MaxReq,
                 calls |-> MaxCallbacks]

registries == <<ActiveRunners, SessionStdin, RequestToSession, RequestToInput,
                HandledRequests, DiscussCooldown, DiscussApproved, PendingAsk>>

\* the state of the parts of the program beside the control channel
aside == <<cbq, chatStore, sched, hook>>

callbackState == <<task, calls, clears, ncalls, limits, cdlog, swept, aside>>

----------------------------------------------------------------------------
\* run_impl up to the stream loop

UsedSessions == {run[r].sid : r \in Runs} \ {None}

\* a resume token of s has been shown and no run of s is still going
Resumable(s) ==
    /\ \E r \in Runs : run[r].sid = s /\ run[r].pc = "done"
                       /\ (run[r].foundSession = s \/ run[r].didEmit)
    /\ \A r \in Runs : run[r].sid = s => run[r].pc = "done"

RunOrderOk(r) ==
    /\ r = "r2" => run["r1"].pc # "new"
    /\ r = "r3" => run["r2"].pc # "new"

FreshSession == IF "S1" \notin UsedSessions THEN "S1" ELSE "S2"

\* Mutant: stdin is closed once the payload has been sent, in either mode
ClosesAfterPayload(useControlChannel) == FALSE

\* run_impl after the payload: stdin is kept open in control-channel mode, the
\* legacy pipe fallback sends and closes
StdinKeptOpen(useControlChannel) == useControlChannel

\* new_state, start_run, spawn in control-channel mode, payload sent
StartRun(r, res, a) ==
    /\ run[r].pc = "new"
    /\ r \in limits.runs
    /\ RunOrderOk(r)
    /\ IF res = None THEN FreshSession \notin UsedSessions ELSE Resumable(res)
    /\ ActiveRunners' = IF res # None THEN Put(ActiveRunners, res, now) ELSE ActiveRunners
    /\ procStdin' = r
    /\ run' = [run EXCEPT ![r] = [NewRun EXCEPT !.pc = "read", !.resume = res,
                                   !.sid = IF res # None THEN res ELSE FreshSession,
                                   !.auto = a, !.open = StdinKeptOpen(TRUE),
                                   !.arSet = IF res # None THEN 1 ELSE 0]]
    /\ UNCHANGED <<now, SessionStdin, RequestToSession, RequestToInput, HandledRequests,
                   DiscussCooldown, DiscussApproved, PendingAsk, written, reqs, buttons,
                   nlines>>
    /\ UNCHANGED callbackState

----------------------------------------------------------------------------
\* one stdout line: _handle_jsonl_line (decode, translate, dedup of StartedEvent,
\* did_emit_completed), the yields of _iter_jsonl_events.

CanRead(r) == run[r].pc = "read" /\ nlines < limits.lines

\* JsonlSubprocessRunner._handle_jsonl_line: a StartedEvent is passed on only
\* when the stream has not found its session yet
StartedIsNew(rec) == rec.foundSession = None

\* JsonlSubprocessRunner._handle_jsonl_line: a CompletedEvent sets
\* stream.did_emit_completed
MarkCompleted(rec) == [rec EXCEPT !.didEmit = TRUE]

\* system(init, session_id)
ReadInit(r) ==
    /\ CanRead(r)
    /\ LET rec == run[r]
           sid == rec.sid
           emit == StartedIsNew(rec)
           register == emit /\ rec.regSid = None
           rec1 == [rec EXCEPT !.factoryResume = sid,
                               !.foundSession = IF emit THEN sid ELSE @,
                               !.regSid = IF register THEN sid ELSE @,
                               !.arSet = @ + 1,
                               !.ssSet = IF register THEN @ + 1 ELSE @,
                               !.events = IF emit THEN Append(@, "started") ELSE @]
       IN /\ ActiveRunners' = Put(ActiveRunners, sid, now)
          /\ SessionStdin' = IF register THEN Put(SessionStdin, sid, r) ELSE SessionStdin
          /\ run' = [run EXCEPT ![r] = [rec1 EXCEPT !.pc = NextPc(rec1, IF emit THEN 1 ELSE 0)]]
    /\ nlines' = nlines + 1
    /\ UNCHANGED <<now, RequestToSession, RequestToInput, HandledRequests, DiscussCooldown,
                   DiscussApproved, PendingAsk, procStdin, written, reqs, buttons>>
    /\ UNCHANGED callbackState

\* the CompletedEvent of a result line with is_error false and no result text:
\* the answer is the last assistant text, the resume token the line's session_id
ResultCompleted(rec) ==
    [ok |-> TRUE, answer |-> rec.lastText, resume |-> rec.sid, source |-> "result"]

\* result
ReadResult(r) ==
    /\ CanRead(r)
    /\ LET rec1 == [MarkCompleted(run[r]) EXCEPT
                       !.events = Append(@, "completed"),
                       !.completions = Append(@, ResultCompleted(run[r]))]
       IN run' = [run EXCEPT ![r] = [rec1 EXCEPT !.pc = NextPc(rec1, 1)]]
    /\ nlines' = nlines + 1
    /\ UNCHANGED <<now, procStdin, written, reqs, buttons>>
    /\ UNCHANGED registries
    /\ UNCHANGED callbackState

\* the _DISCUSS_COOLDOWN entry of the session of run r, as set by the last
\* Pause & Outline Plan click
CooldownStamp(r) ==
    IF run[r].sid \in DOMAIN DiscussCooldown THEN DiscussCooldown[run[r].sid] ELSE NoEntry

\* the length of the longest assistant text block run r has read since the
\* cooldown of its session was set
LongestTextSinceCooldown(r) ==
    IF CooldownStamp(r) # NoEntry /\ run[r].outline.stamp = CooldownStamp(r)
    THEN run[r].outline.len ELSE 0

\* assistant message with one text block of n characters
ReadAssistantText(r, n) ==
    /\ CanRead(r)
    /\ LET rec == run[r]
           longest == IF rec.outline.stamp = CooldownStamp(r) /\ rec.outline.len > n
                      THEN rec.outline.len ELSE n
           rec1 == [rec EXCEPT !.lastText = n,
                               !.outline = [stamp |-> CooldownStamp(r), len |-> longest]]
       IN run' = [run EXCEPT ![r] = [rec1 EXCEPT !.pc = NextPc(rec1, 0)]]
    /\ nlines' = nlines + 1
    /\ UNCHANGED <<now, procStdin, written, reqs, buttons>>
    /\ UNCHANGED registries
    /\ UNCHANGED callbackState

NextRequestId == Cardinality(DOMAIN reqs) + 1

CanReadRequest(r) == CanRead(r) /\ NextRequestId <= limits.reqs

\* action ids: a tool_use id, claude.control.N, claude.discuss_approve.N
ToolAction(id) == <<"tool", id>>
ControlAction(n) == <<"control", ToString(n)>>
DiscussApproveAction(n) == <<"discuss_approve", ToString(n)>>

ActionStarted(aid) == [id |-> aid, phase |-> "started"]
ActionCompleted(aid) == [id |-> aid, phase |-> "completed"]

\* "Map the preceding tool_use_id to this control action for cleanup"
LinkControlAction(link, last, aid) == IF last # None THEN Put(link, last, aid) ELSE link

\* the tool_use whose permission a can_use_tool request asks for: one of the
\* tools announced and not yet completed (history only, the code does not read it)
AskerChoices(rec) == IF rec.pendingActions = {} THEN {None} ELSE rec.pendingActions

\* the interactive branch numbers its warning action and links it
WithControlAction(rec, a) ==
    LET n == rec.noteSeq + 1
    IN [rec EXCEPT !.noteSeq = n,
                   !.controlActionForTool =
                       LinkControlAction(@, rec.lastToolUseId, ControlAction(n)),
                   !.actions = Append(@, ActionStarted(ControlAction(n))),
                   !.asker = Put(@, ControlAction(n), a)]

NoteRequest(q, r, kind, tool, input, class) ==
    /\ reqs' = Put(reqs, q, [run |-> r, kind |-> kind, tool |-> tool, input |-> input,
                             class |-> class, sid |-> run[r].factoryResume,
                             textSince |-> LongestTextSinceCooldown(r),
                             cooling |-> CooldownActive(DiscussCooldown, run[r].sid, now)])
    /\ written' = Put(written, q, <<>>)
    /\ calls' = Put(calls, q, <<>>)

\* control_request: initialize, hook_callback, mcp_message, rewind_files, interrupt
ReadControlAuto(r) ==
    /\ CanReadRequest(r)
    /\ LET q == NextRequestId
           rec1 == [run[r] EXCEPT !.approveQ = Append(@, q)]
       IN /\ run' = [run EXCEPT ![r] = [rec1 EXCEPT !.pc = NextPc(rec1, 0)]]
          /\ NoteRequest(q, r, "auto_type", None, NoInput, "auto_approve")
    /\ nlines' = nlines + 1
    /\ UNCHANGED <<now, procStdin, buttons, task, clears, ncalls, limits, cdlog, swept, aside>>
    /\ UNCHANGED registries

\* the interactive branch of translate_claude_event for request q of run r
Interactive(r, q, kind, tool, input, cd1) ==
    LET rec == run[r]
        s == rec.factoryResume
        pcr1 == Put(rec.pcr, q, now)
        expired == {rid \in DOMAIN pcr1 : now - pcr1[rid] > CONTROL_TIMEOUT_SECONDS}
        rti1 == IF s # None /\ kind = "can_use_tool"
                THEN Put(RequestToInput, q, input) ELSE RequestToInput
        rec0 == [rec EXCEPT !.pcr = [x \in (DOMAIN pcr1) \ expired |-> pcr1[x]],
                            !.events = Append(@, "warning")]
    IN /\ RequestToSession' = IF s # None THEN Put(RequestToSession, q, s)
                              ELSE RequestToSession
       /\ RequestToInput' = [x \in (DOMAIN rti1) \ expired |-> rti1[x]]
       /\ PendingAsk' = IF tool = "AskUserQuestion" THEN Append(PendingAsk, q)
                        ELSE PendingAsk
       /\ buttons' = buttons \cup {<<"approve", q>>, <<"deny", q>>}
                       \cup (IF tool = "ExitPlanMode" THEN {<<"discuss", q>>} ELSE {})
       /\ DiscussCooldown' = cd1
       /\ \E a \in AskerChoices(rec) :
             LET rec1 == WithControlAction(rec0, a)
             IN run' = [run EXCEPT ![r] = [rec1 EXCEPT !.pc = NextPc(rec1, 1)]]
       /\ UNCHANGED <<ActiveRunners, SessionStdin, HandledRequests, DiscussApproved>>

\* control_request: can_use_tool(tool_name, input)
ReadCanUseTool(r, tool) ==
    /\ CanReadRequest(r)
    /\ LET q == NextRequestId
           input == ToolInput(q)
           rec == run[r]
           s == rec.factoryResume
           class == ToolRequestClass(tool, rec.auto,
                                     s # None /\ s \in DiscussApproved,
                                     s # None /\ CooldownActive(DiscussCooldown, s, now))
       IN /\ NoteRequest(q, r, "can_use_tool", tool, input, class)
          /\ CASE class = "auto_approve" ->
                    LET rec1 == [rec EXCEPT !.approveQ = Append(@, q)]
                    IN /\ run' = [run EXCEPT ![r] = [rec1 EXCEPT !.pc = NextPc(rec1, 0)]]
                       /\ UNCHANGED buttons
                       /\ UNCHANGED registries
               [] class = "discuss_approved" ->
                    LET rec1 == [rec EXCEPT !.approveQ = Append(@, q)]
                    IN /\ DiscussApproved' = DiscussApproved \ {s}
                       /\ DiscussCooldown' = ClearDiscussCooldown(DiscussCooldown, s)
                       /\ run' = [run EXCEPT ![r] = [rec1 EXCEPT !.pc = NextPc(rec1, 0)]]
                       /\ UNCHANGED <<ActiveRunners, SessionStdin, RequestToSession,
                                      RequestToInput, HandledRequests, PendingAsk, buttons>>
               [] class = "cooldown_deny" ->
                    LET rec1 == [rec EXCEPT !.denyQ = Append(@, <<q, "escalation">>),
                                            !.events = Append(@, "warning"),
                                            !.noteSeq = @ + 1,
                                            !.actions =
                                                Append(@, ActionStarted(
                                                    DiscussApproveAction(rec.noteSeq + 1)))]
                    IN /\ RequestToInput' = Pop(RequestToInput, q)
                       /\ RequestToSession' = Put(RequestToSession, DaId(s), s)
                       /\ buttons' = buttons \cup {<<"approve", DaId(s)>>, <<"deny", DaId(s)>>}
                       /\ run' = [run EXCEPT ![r] = [rec1 EXCEPT !.pc = NextPc(rec1, 1)]]
                       /\ UNCHANGED <<ActiveRunners, SessionStdin, HandledRequests,
                                      DiscussCooldown, DiscussApproved, PendingAsk>>
               [] OTHER ->
                    Interactive(r, q, "can_use_tool", tool, input,
                                IF tool = "ExitPlanMode" /\ s # None
                                THEN CooldownAfterCheck(DiscussCooldown, s, now)
                                ELSE DiscussCooldown)
    /\ nlines' = nlines + 1
    /\ UNCHANGED <<now, procStdin, task, clears, ncalls, limits, cdlog, swept, aside>>

\* the ways a stdout line fails to decode
DecodeFailures == {"invalid_json", "msgspec_decode_error"}

\* Mutant: a line that fails to decode is reported with a note event
DecodeErrorNote(failure) == <<"note">>

\* invalid_json_events, and decode_error_events for a msgspec.DecodeError
DecodeErrorEvents(failure) == <<>>

\* JsonlSubprocessRunner._handle_jsonl_line catches the decode failure, asks the
\* runner for the events of the line and returns them
DecodeFailureEndsStream == FALSE

\* a stdout line that is not JSON or does not match the schema
ReadMalformed(r, failure) ==
    /\ CanRead(r)
    /\ LET new == DecodeErrorEvents(failure)
           rec1 == [run[r] EXCEPT !.events = @ \o new,
                                  !.malformed = @ + 1,
                                  !.malformedAt = Len(run[r].events) + Len(new)]
       IN run' = [run EXCEPT ![r] = [rec1 EXCEPT !.pc = IF DecodeFailureEndsStream
                                                        THEN "raised"
                                                        ELSE NextPc(rec1, Len(new))]]
    /\ nlines' = nlines + 1
    /\ UNCHANGED <<now, procStdin, written, reqs, buttons>>
    /\ UNCHANGED registries
    /\ UNCHANGED callbackState

\* assistant message with a tool_use block
ReadToolUse(r, id) ==
    /\ CanRead(r)
    /\ LET rec1 == [run[r] EXCEPT !.pendingActions = @ \cup {id},
                                  !.lastToolUseId = id,
                                  !.actions = Append(@, ActionStarted(ToolAction(id))),
                                  !.events = Append(@, "action")]
       IN run' = [run EXCEPT ![r] = [rec1 EXCEPT !.pc = NextPc(rec1, 1)]]
    /\ nlines' = nlines + 1
    /\ UNCHANGED <<now, procStdin, written, reqs, buttons>>
    /\ UNCHANGED registries
    /\ UNCHANGED callbackState

\* the events of one tool_result block: the tool's completion, then that of the
\* control action linked to its id
ToolResultActions(link, id) ==
    <<ActionCompleted(ToolAction(id))>>
        \o (IF id \in DOMAIN link THEN <<ActionCompleted(link[id])>> ELSE <<>>)

\* user message with a tool_result block
ReadToolResult(r, id) ==
    /\ CanRead(r)
    /\ LET new == ToolResultActions(run[r].controlActionForTool, id)
           rec1 == [run[r] EXCEPT !.pendingActions = @ \ {id},
                                  !.controlActionForTool = Pop(@, id),
                                  !.actions = @ \o new,
                                  !.events = @ \o [i \in 1..Len(new) |-> "action"]]
       IN run' = [run EXCEPT ![r] = [rec1 EXCEPT !.pc = NextPc(rec1, Len(new))]]
    /\ nlines' = nlines + 1
    /\ UNCHANGED <<now, procStdin, written, reqs, buttons>>
    /\ UNCHANGED registries
    /\ UNCHANGED callbackState

\* control_request: set_permission_mode(mode)
ReadSetPermissionMode(r) ==
    /\ CanReadRequest(r)
    /\ LET q == NextRequestId
       IN /\ NoteRequest(q, r, "set_permission_mode", None, NoInput, "interactive")
          /\ Interactive(r, q, "set_permission_mode", None, NoInput, DiscussCooldown)
    /\ nlines' = nlines + 1
    /\ UNCHANGED <<now, procStdin, task, clears, ncalls, limits, cdlog, swept, aside>>

----------------------------------------------------------------------------
\* _drain_auto_approve, _drain_auto_deny

\* pipe = stdin or self._proc_stdin
DrainPipe(stdin, ps) == IF stdin # None THEN stdin ELSE ps

ApproveItems(queue) ==
    [i \in 1..Len(queue) |-> [rid |-> queue[i], inner |-> AutoApproveResponse(queue[i])]]

DenyItems(queue) ==
    [i \in 1..Len(queue) |->
        [rid |-> queue[i][1], inner |-> AutoDenyResponse(queue[i][1], queue[i][2])]]

Drain(r) ==
    /\ run[r].pc = "drain"
    /\ LET pipe == DrainPipe(r, procStdin)
           err == SendError(pipe)
       IN IF err # None /\ ~WriteErrorCaught(err)
          THEN \* the exception leaves _iter_jsonl_events
               /\ run' = [run EXCEPT ![r].pc = "raised"]
               /\ UNCHANGED written
          ELSE /\ written' = SendAll(written, pipe,
                                     ApproveItems(run[r].approveQ)
                                         \o DenyItems(run[r].denyQ))
               /\ run' = [run EXCEPT
                             ![r].approveQ = <<>>, ![r].denyQ = <<>>,
                             ![r].failedAt = IF err # None /\ @ < 0
                                             THEN Len(run[r].events) ELSE @,
                             ![r].pc = IF BreakAfterCompleted(run[r].didEmit)
                                       THEN "closing" ELSE "read"]
    /\ UNCHANGED <<now, procStdin, reqs, buttons, nlines>>
    /\ UNCHANGED registries
    /\ UNCHANGED callbackState

----------------------------------------------------------------------------
\* the end of run_impl

\* process_error_events / stream_end_events: the registry cleanup
Unregister(sid) ==
    IF sid # None
    THEN /\ ActiveRunners' = Pop(ActiveRunners, sid)
         /\ SessionStdin' = Pop(SessionStdin, sid)
         /\ DiscussCooldown' = ClearDiscussCooldown(DiscussCooldown, sid)
         /\ DiscussApproved' = DiscussApproved \ {sid}
    ELSE UNCHANGED <<ActiveRunners, SessionStdin, DiscussCooldown, DiscussApproved>>

\* Mutant: a stream that ends with exit code 0 is reported as a success
StreamEndCompletedOk(rec) ==
    [ok |-> TRUE, answer |-> rec.lastText, resume |-> rec.foundSession,
     source |-> "stream_end"]

\* Mutant: the synthesised events carry the token the run was started with
StreamEndKeepsStartToken(rec) ==
    [ok |-> FALSE, answer |-> rec.lastText, resume |-> rec.resume,
     source |-> "stream_end"]

\* process_error_events: completed_error(error=message, resume=found_session or
\* resume); an event built with an error message is not ok, and no answer is
\* passed
ProcessErrorCompleted(rec) ==
    [ok |-> FALSE, answer |-> 0,
     resume |-> IF rec.foundSession # None THEN rec.foundSession ELSE rec.resume,
     source |-> "process_error"]

\* stream_end_events with a session found: completed_error(error=message,
\* answer=state.last_assistant_text or "", resume=found_session)
StreamEndWithSession(rec) ==
    [ok |-> FALSE, answer |-> rec.lastText, resume |-> rec.foundSession,
     source |-> "stream_end"]

\* stream_end_events
StreamEndCompleted(rec) ==
    IF rec.foundSession = None
    THEN [ok |-> FALSE, answer |-> 0, resume |-> rec.resume, source |-> "stream_end"]
    ELSE StreamEndWithSession(rec)

\* Mutant: run_impl falls through to the synthesised completion every time
NeverReturnsAfterCompleted(didEmit) == FALSE

\* run_impl returns after the stream loop when the CompletedEvent was yielded
ReturnsAfterCompleted(didEmit) == didEmit

\* run_impl once the process has exited with rc: unless the CompletedEvent was
\* already yielded, process_error_events (rc # 0) or stream_end_events (rc = 0)
\* synthesise it
PostLoop(r, rc) ==
    IF ReturnsAfterCompleted(run[r].didEmit)
    THEN /\ run' = [run EXCEPT ![r].pc = "done"]
         /\ UNCHANGED <<ActiveRunners, SessionStdin, DiscussCooldown, DiscussApproved>>
    ELSE /\ Unregister(IF run[r].foundSession # None THEN run[r].foundSession
                       ELSE run[r].resume)
         /\ run' = [run EXCEPT ![r].pc = "done",
                               ![r].arDel = IF ActiveRunners' # ActiveRunners
                                            THEN @ + 1 ELSE @,
                               ![r].ssDel = IF SessionStdin' # SessionStdin
                                            THEN @ + 1 ELSE @,
                               ![r].events = IF rc # 0 THEN @ \o <<"note", "completed">>
                                             ELSE Append(@, "completed"),
                               ![r].completions =
                                   Append(@, IF rc # 0 THEN ProcessErrorCompleted(run[r])
                                             ELSE StreamEndCompleted(run[r]))]

\* run_impl after the stream loop: this_proc_stdin.aclose(), then proc.wait()
CloseStdin(r) ==
    /\ run' = [run EXCEPT ![r].open = FALSE, ![r].pc = "exiting"]
    /\ UNCHANGED <<now, procStdin, written, reqs, buttons, nlines>>
    /\ UNCHANGED registries
    /\ UNCHANGED callbackState

\* stdout reaches EOF before a result line
EndOfStream(r) ==
    /\ run[r].pc = "read"
    /\ CloseStdin(r)

\* the stream loop was left by the break after the CompletedEvent
Finish(r) ==
    /\ run[r].pc = "closing"
    /\ CloseStdin(r)

\* proc.wait() returns rc
Exit(r, rc) ==
    /\ run[r].pc = "exiting"
    /\ PostLoop(r, rc)
    /\ UNCHANGED <<now, RequestToSession, RequestToInput, HandledRequests, PendingAsk,
                   procStdin, written, reqs, buttons, nlines>>
    /\ UNCHANGED callbackState

\* the subprocess stops reading its stdin while its stdout goes on
BreakPipe(r) ==
    /\ run[r].pc \in {"read", "drain"}
    /\ run[r].open /\ ~run[r].broken
    /\ run' = [run EXCEPT ![r].broken = TRUE]
    /\ UNCHANGED <<now, procStdin, written, reqs, buttons, nlines>>
    /\ UNCHANGED registries
    /\ UNCHANGED callbackState

\* the sessions cleanup_expired_sessions finds expired at time t
ExpiredSessions(runners, t, maxAge) ==
    {s \in DOMAIN runners : t - runners[s] > maxAge}

\* cleanup_expired_sessions(max_age_seconds)
CleanupExpiredSessions(maxAge) ==
    /\ swept.calls < limits.calls
    /\ LET expired == ExpiredSessions(ActiveRunners, now, maxAge)
       IN /\ ActiveRunners' = [s \in (DOMAIN ActiveRunners) \ expired |-> ActiveRunners[s]]
          /\ swept' = [calls |-> swept.calls + 1, returned |-> Cardinality(expired)]
    /\ UNCHANGED <<now, SessionStdin, RequestToSession, RequestToInput, HandledRequests,
                   DiscussCooldown, DiscussApproved, PendingAsk, procStdin, run, task,
                   written, reqs, buttons, calls, clears, nlines, ncalls, limits, cdlog,
                   aside>>

\* time passes; the cooldown check is what looks at the clock
Tick ==
    /\ DiscussCooldown # EmptyMap
    /\ \E t \in TimePoints : t > now /\ now' = t
    /\ UNCHANGED <<procStdin, run, written, reqs, buttons, nlines>>
    /\ UNCHANGED registries
    /\ UNCHANGED callbackState

----------------------------------------------------------------------------
\* Callbacks: ClaudeControlCommand.handle, answer_ask_question,
\* send_claude_control_response, write_control_response

\* the record of a finished call: the handler's action, what the send call
\* returned, and how often _HANDLED_REQUESTS had been cleared when it was made
LogCall(kind, q, res) ==
    calls' = Put(calls, q, Append(IF q \in DOMAIN calls THEN calls[q] ELSE <<>>,
                                  [kind |-> kind, res |-> res, epoch |-> clears]))

\* Mutant: every unregistered request is taken for an already handled duplicate
AlwaysDuplicate(q, handled) == TRUE

\* Mutant: a request found in _HANDLED_REQUESTS is not recognised as a duplicate
NeverDuplicate(q, handled) == FALSE

\* send_claude_control_response: request_id in _HANDLED_REQUESTS
IsDuplicate(q, handled) == q \in handled

\* Mutant: the set of handled requests is never cleared
NeverOverflows(handled) == FALSE

\* if len(_HANDLED_REQUESTS) > 100
HandledOverflow(handled) == Cardinality(handled) > HANDLED_REQUESTS_CAP

\* send_claude_control_response after the write, then the rest of the handler:
\* sid is the session_id the handler read before the send
AfterWrite(kind, q, sid) ==
    IF q \notin DOMAIN RequestToSession
    THEN \* del _REQUEST_TO_SESSION[request_id] raises KeyError
         /\ LogCall(kind, q, "raised")
         /\ UNCHANGED <<RequestToSession, HandledRequests, DiscussCooldown, clears>>
    ELSE LET handled == HandledRequests \cup {q}
             overflow == HandledOverflow(handled)
         IN /\ RequestToSession' = Pop(RequestToSession, q)
            /\ HandledRequests' = IF overflow THEN {} ELSE handled
            /\ clears' = IF overflow THEN clears + 1 ELSE clears
            /\ LogCall(kind, q, "ok")
            /\ DiscussCooldown' =
                 IF sid = None \/ kind = "answer" THEN DiscussCooldown
                 ELSE IF kind = "discuss" THEN SetDiscussCooldown(DiscussCooldown, sid, now)
                 ELSE ClearDiscussCooldown(DiscussCooldown, sid)

\* send_claude_control_response(q, approved, deny_message=msg) called by task t,
\* up to the suspension in the stdin write
SendControlResponse(t, kind, q, approved, msg) ==
    LET sid == Get(RequestToSession, q)
    IN IF q \notin DOMAIN RequestToSession
       THEN /\ LogCall(kind, q, IF IsDuplicate(q, HandledRequests) THEN "ok" ELSE "fail")
            /\ UNCHANGED <<RequestToSession, RequestToInput, HandledRequests,
                           DiscussCooldown, written, task, clears>>
       ELSE IF sid \notin DOMAIN ActiveRunners
       THEN /\ RequestToSession' = Pop(RequestToSession, q)
            /\ RequestToInput' = Pop(RequestToInput, q)
            /\ LogCall(kind, q, "fail")
            /\ UNCHANGED <<HandledRequests, DiscussCooldown, written, task, clears>>
       ELSE LET h == StdinToUse(q, RequestToSession, SessionStdin, procStdin)
                inner == InnerResponse(q, approved, msg, RequestToInput)
            IN /\ RequestToInput' = Pop(RequestToInput, q)
               /\ IF h # None /\ SendError(h) = None
                  THEN /\ written' = Send(written, h, q, inner)
                       /\ task' = [task EXCEPT ![t] = [pc |-> "sending", kind |-> kind,
                                                       q |-> q, sid |-> sid]]
                       /\ UNCHANGED <<RequestToSession, HandledRequests, DiscussCooldown,
                                      calls, clears>>
                  ELSE IF h # None /\ ~WriteErrorCaught(SendError(h))
                  THEN \* the exception leaves write_control_response
                       /\ LogCall(kind, q, "write_raised")
                       /\ UNCHANGED <<RequestToSession, HandledRequests, DiscussCooldown,
                                      written, task, clears>>
                  ELSE \* failed write or no channel: logged, nothing awaited
                       /\ AfterWrite(kind, q, sid)
                       /\ UNCHANGED <<written, task>>

TaskOrderOk(t) == t = "t2" => task["t1"].pc # "idle"

CanDeliver(t) == task[t].pc = "idle" /\ TaskOrderOk(t) /\ ncalls < limits.calls

\* a click on Approve, Deny or Pause & Outline Plan of a request's keyboard
Click(t, a, q) ==
    /\ CanDeliver(t)
    /\ <<a, q>> \in buttons
    /\ ~IsDa(q)
    /\ SendControlResponse(t, a, q, a = "approve",
                           IF a = "discuss" THEN "discuss" ELSE "user")
    /\ ncalls' = ncalls + 1
    /\ UNCHANGED <<now, ActiveRunners, SessionStdin, DiscussApproved, PendingAsk,
                   procStdin, run, reqs, buttons, nlines, limits, cdlog, swept, aside>>

\* Mutant: the synthetic Deny button records the approval as well
ApprovedAfterAnyClick(a, approved, s) == approved \cup {s}

\* _DISCUSS_APPROVED after a click on the synthetic keyboard of session s
ApprovedAfterClick(a, approved, s) ==
    IF a = "approve" THEN approved \cup {s} ELSE approved

\* a click on Approve Plan or Deny of the synthetic da: keyboard
ClickDiscussApproval(t, a, q) ==
    /\ CanDeliver(t)
    /\ <<a, q>> \in buttons
    /\ IsDa(q)
    /\ RequestToSession' = Pop(RequestToSession, q)
    /\ DiscussApproved' = ApprovedAfterClick(a, DiscussApproved, DaSession(q))
    /\ DiscussCooldown' = ClearDiscussCooldown(DiscussCooldown, DaSession(q))
    /\ LogCall(a, q, "ok")
    /\ ncalls' = ncalls + 1
    /\ UNCHANGED <<now, ActiveRunners, SessionStdin, RequestToInput, HandledRequests,
                   PendingAsk, procStdin, run, task, written, reqs, buttons,
                   clears, nlines, limits, cdlog, swept, aside>>

\* a text reply answering the oldest pending AskUserQuestion
AnswerAskQuestion(t) ==
    /\ CanDeliver(t)
    /\ PendingAsk # <<>>
    /\ LET q == Head(PendingAsk)
       IN /\ PendingAsk' = RemoveFirst(PendingAsk, q)
          /\ SendControlResponse(t, "answer", q, FALSE, "answer")
    /\ ncalls' = ncalls + 1
    /\ UNCHANGED <<now, ActiveRunners, SessionStdin, DiscussApproved, procStdin, run,
                   reqs, buttons, nlines, limits, cdlog, swept, aside>>

\* the stdin write of task t returns
WriteReturns(t) ==
    /\ task[t].pc = "sending"
    /\ AfterWrite(task[t].kind, task[t].q, task[t].sid)
    /\ task' = [task EXCEPT ![t] = IdleTask]
    /\ UNCHANGED <<now, ActiveRunners, SessionStdin, RequestToInput, DiscussApproved,
                   PendingAsk, procStdin, run, written, reqs, buttons, nlines, ncalls,
                   limits, cdlog, swept, aside>>

----------------------------------------------------------------------------

Next ==
    \/ \E r \in Runs, res \in Sessions \cup {None}, a \in BOOLEAN : StartRun(r, res, a)
    \/ \E r \in Runs : ReadInit(r)
    \/ \E r \in Runs : ReadResult(r)
    \/ \E r \in Runs : ReadControlAuto(r)
    \/ \E r \in Runs, tool \in ToolNames : ReadCanUseTool(r, tool)
    \/ \E r \in Runs : ReadSetPermissionMode(r)
    \/ \E r \in Runs : Drain(r)
    \/ \E r \in Runs : EndOfStream(r)
    \/ \E r \in Runs : Finish(r)
    \/ \E r \in Runs, rc \in {0, 1} : Exit(r, rc)
    \/ Tick
    \/ \E t \in Tasks, a \in {"approve", "deny", "discuss"}, q \in DOMAIN reqs : Click(t, a, q)
    \/ \E t \in Tasks, a \in {"approve", "deny"}, s \in Sessions :
          ClickDiscussApproval(t, a, DaId(s))
    \/ \E t \in Tasks : AnswerAskQuestion(t)
    \/ \E t \in Tasks : WriteReturns(t)

Spec == Init /\ [][Next]_vars

\* One session and the requests that need approval: deep enough for a Pause &
\* Outline Plan click, the cooldown deny, an Approve Plan click and the bypass.
PlanLines == 4
PlanReq == 3

InitPlan ==
    /\ Base
    /\ limits = [runs |-> {"r1"}, lines |-> PlanLines, reqs |-> PlanReq,
                 calls |-> MaxCallbacks]

NextPlan ==
    \/ \E r \in Runs, a \in BOOLEAN : StartRun(r, None, a)
    \/ \E r \in Runs : ReadInit(r)
    \/ \E r \in Runs, n \in TextLengths : ReadAssistantText(r, n)
    \/ \E r \in Runs, tool \in ToolsRequiringApproval : ReadCanUseTool(r, tool)
    \/ \E r \in Runs : Drain(r)
    \/ Tick
    \/ \E t \in Tasks, a \in {"approve", "deny", "discuss"}, q \in DOMAIN reqs : Click(t, a, q)
    \/ \E t \in Tasks, a \in {"approve", "deny"}, s \in Sessions :
          ClickDiscussApproval(t, a, DaId(s))
    \/ \E t \in Tasks : AnswerAskQuestion(t)
    \/ \E t \in Tasks : WriteReturns(t)

SpecPlan == InitPlan /\ [][NextPlan]_vars

\* Three runs on the one runner instance, two of them at a time: a session
\* that ended, its resumption, and a second session started alongside.
SessLines == 2
SessReq == 1
SessCalls == 1

InitSessions ==
    /\ Base
    /\ limits = [runs |-> Runs, lines |-> SessLines, reqs |-> SessReq,
                 calls |-> SessCalls]

NextSessions ==
    \/ \E r \in Runs, res \in Sessions \cup {None}, a \in BOOLEAN : StartRun(r, res, a)
    \/ \E r \in Runs : ReadInit(r)
    \/ \E r \in Runs : ReadResult(r)
    \/ \E r \in Runs : ReadControlAuto(r)
    \/ \E r \in Runs, tool \in ToolNames : ReadCanUseTool(r, tool)
    \/ \E r \in Runs : ReadSetPermissionMode(r)
    \/ \E r \in Runs : Drain(r)
    \/ \E r \in Runs : EndOfStream(r)
    \/ \E r \in Runs : Finish(r)
    \/ \E r \in Runs, rc \in {0, 1} : Exit(r, rc)
    \/ Tick
    \/ \E t \in Tasks, a \in {"approve", "deny", "discuss"}, q \in DOMAIN reqs : Click(t, a, q)
    \/ \E t \in Tasks : AnswerAskQuestion(t)
    \/ \E t \in Tasks : WriteReturns(t)

SpecSessions == InitSessions /\ [][NextSessions]_vars

\* One session whose requests are approved one after the other, each callback
\* handled to its end before the next thing happens, and one of the Approve
\* clicks delivered a second time: long enough for _HANDLED_REQUESTS to
\* outgrow its cap.
DupRequests == HANDLED_REQUESTS_CAP + 1

InitDup ==
    /\ Base
    /\ limits = [runs |-> {"r1"}, lines |-> DupRequests + 1, reqs |-> DupRequests,
                 calls |-> DupRequests + 1]

Quiet == RequestToSession = EmptyMap /\ \A t \in Tasks : task[t].pc = "idle"

\* request q has been approved once and the call has returned
ApprovedOnce(q) == q \in DOMAIN calls /\ Len(calls[q]) = 1

NoDuplicateYet == \A q \in DOMAIN calls : Len(calls[q]) <= 1

NextDup ==
    \/ StartRun("r1", None, FALSE)
    \/ ReadInit("r1") /\ run["r1"].foundSession = None
    \/ Quiet /\ run["r1"].foundSession # None /\ ReadCanUseTool("r1", "ExitPlanMode")
    \/ \E q \in DOMAIN RequestToSession : Click("t1", "approve", q)
    \/ \E q \in DOMAIN reqs :
          Quiet /\ ApprovedOnce(q) /\ NoDuplicateYet /\ Click("t1", "approve", q)
    \/ WriteReturns("t1")

SpecDup == InitDup /\ [][NextDup]_vars

\* A plan session and its resumption, with ExitPlanMode as the only request:
\* deep enough for a Pause & Outline Plan click, a cooldown deny, an Approve
\* Plan click and a request of the resumed run, in either permission mode.
ReplanLines == 6
ReplanReq == 3
ReplanCalls == 2

InitReplan ==
    /\ Base
    /\ limits = [runs |-> {"r1", "r2"}, lines |-> ReplanLines, reqs |-> ReplanReq,
                 calls |-> ReplanCalls]

NextReplan ==
    \/ \E a \in BOOLEAN : StartRun("r1", None, a)
    \/ \E a \in BOOLEAN : run["r1"].pc = "done" /\ StartRun("r2", "S1", a)
    \/ \E r \in Runs : ReadInit(r) /\ run[r].foundSession = None
    \/ \E r \in Runs : ReadCanUseTool(r, "ExitPlanMode")
    \/ \E r \in Runs : ReadResult(r)
    \/ \E r \in Runs : Drain(r)
    \/ \E r \in Runs : EndOfStream(r)
    \/ \E r \in Runs : Finish(r)
    \/ \E r \in Runs : Exit(r, 0)
    \/ Tick
    \/ \E t \in Tasks, a \in {"approve", "deny", "discuss"}, q \in DOMAIN reqs : Click(t, a, q)
    \/ \E t \in Tasks, a \in {"approve", "deny"}, s \in Sessions :
          ClickDiscussApproval(t, a, DaId(s))
    \/ \E t \in Tasks : WriteReturns(t)

SpecReplan == InitReplan /\ [][NextReplan]_vars

\* The cooldown functions on their own, called in any order for one session
\* while the clock advances: up to MaxPauses Pause & Outline Plan clicks, with
\* checks before, at and after the end of each window.
MaxPauses == 5
MaxWindows == 5
Epoch == 1000
\* the clock readings: the ends of the windows that start at Epoch, and one
\* second after each
ClockReadings ==
    {Epoch + DISCUSS_COOLDOWN_BASE_SECONDS * k + e : k \in 0..MaxWindows, e \in {0, 1}}
CooldownSession == "S1"

InitCooldown ==
    /\ now = Epoch
    /\ ActiveRunners = EmptyMap
    /\ SessionStdin = EmptyMap
    /\ RequestToSession = EmptyMap
    /\ RequestToInput = EmptyMap
    /\ HandledRequests = {}
    /\ DiscussCooldown = EmptyMap
    /\ DiscussApproved = {}
    /\ PendingAsk = <<>>
    /\ procStdin = None
    /\ run = [r \in Runs |-> NewRun]
    /\ task = [t \in Tasks |-> IdleTask]
    /\ written = EmptyMap
    /\ reqs = EmptyMap
    /\ buttons = {}
    /\ calls = EmptyMap
    /\ clears = 0
    /\ nlines = 0
    /\ ncalls = 0
    /\ cdlog = NoCooldownCall
    /\ swept = NoSweep
    /\ AsideInit
    /\ limits = [runs |-> {}, lines |-> 0, reqs |-> 0, calls |-> MaxPauses]

cooldownRest == <<ActiveRunners, SessionStdin, RequestToSession, RequestToInput,
                  HandledRequests, DiscussApproved, PendingAsk, procStdin, run,
                  task, written, reqs, buttons, calls, clears, nlines, ncalls, limits,
                  swept, aside>>

\* set_discuss_cooldown(s)
CallSetDiscussCooldown(s) ==
    /\ cdlog.sets < limits.calls
    /\ DiscussCooldown' = SetDiscussCooldown(DiscussCooldown, s, now)
    /\ cdlog' = [cdlog EXCEPT !.sets = @ + 1, !.op = "set", !.res = None,
                              !.age = 0 - 1, !.flip = ~@]
    /\ UNCHANGED now
    /\ UNCHANGED cooldownRest

\* check_discuss_cooldown(s)
CallCheckDiscussCooldown(s) ==
    /\ DiscussCooldown' = CooldownAfterCheck(DiscussCooldown, s, now)
    /\ cdlog' = [cdlog EXCEPT
                   !.op = "check",
                   !.res = IF CooldownActive(DiscussCooldown, s, now)
                           THEN "cooling" ELSE "clear",
                   !.age = IF s \in DOMAIN DiscussCooldown /\ DiscussCooldown[s].ts # 0
                           THEN now - DiscussCooldown[s].ts ELSE 0 - 1,
                   !.expired = @ \/ DiscussCooldown' # DiscussCooldown,
                   !.flip = ~@]
    /\ UNCHANGED now
    /\ UNCHANGED cooldownRest

\* clear_discuss_cooldown(s)
CallClearDiscussCooldown(s) ==
    /\ DiscussCooldown' = ClearDiscussCooldown(DiscussCooldown, s)
    /\ cdlog' = [NoCooldownCall EXCEPT !.op = "clear", !.flip = ~cdlog.flip]
    /\ UNCHANGED now
    /\ UNCHANGED cooldownRest

\* time passes up to the clock reading t
Elapse(t) ==
    /\ t > now
    /\ now' = t
    /\ UNCHANGED <<DiscussCooldown, cdlog>>
    /\ UNCHANGED cooldownRest

NextCooldown ==
    \/ CallSetDiscussCooldown(CooldownSession)
    \/ CallCheckDiscussCooldown(CooldownSession)
    \/ CallClearDiscussCooldown(CooldownSession)
    \/ \E t \in ClockReadings : Elapse(t)

SpecCooldown == InitCooldown /\ [][NextCooldown]_vars

\* One run whose control requests lie more than five minutes apart: the expiry
\* of pending_control_requests.
ExpiryLines == 3
ExpiryReq == 2

\* the clock readings at the end of the timeout and one second later
ExpiryReadings == {CONTROL_TIMEOUT_SECONDS, CONTROL_TIMEOUT_SECONDS + 1}

InitExpiry ==
    /\ Base
    /\ limits = [runs |-> {"r1"}, lines |-> ExpiryLines, reqs |-> ExpiryReq,
                 calls |-> 0]

\* the agent is silent up to the clock reading t
Wait(t) ==
    /\ t > now
    /\ \E r \in Runs : run[r].pc = "read"
    /\ now' = t
    /\ UNCHANGED <<procStdin, run, written, reqs, buttons, nlines>>
    /\ UNCHANGED registries
    /\ UNCHANGED callbackState

NextExpiry ==
    \/ \E a \in BOOLEAN : StartRun("r1", None, a)
    \/ ReadInit("r1") /\ run["r1"].foundSession = None
    \/ ReadControlAuto("r1")
    \/ \E tool \in ToolNames : ReadCanUseTool("r1", tool)
    \/ ReadSetPermissionMode("r1")
    \/ Drain("r1")
    \/ \E t \in ExpiryReadings : Wait(t)

SpecExpiry == InitExpiry /\ [][NextExpiry]_vars

\* The stdout stream of a run and of its resumption, without callbacks: init,
\* assistant text, automatic control requests, result, and the end of the
\* stream with either exit code.
StreamLines == 4
StreamReq == 2

InitStream ==
    /\ Base
    /\ limits = [runs |-> {"r1", "r2"}, lines |-> StreamLines, reqs |-> StreamReq,
                 calls |-> 0]

NextStream ==
    \/ StartRun("r1", None, FALSE)
    \/ run["r1"].pc = "done" /\ StartRun("r2", "S1", FALSE)
    \/ \E r \in Runs : ReadInit(r) /\ run[r].foundSession = None
    \/ \E r \in Runs, n \in TextLengths : ReadAssistantText(r, n)
    \/ \E r \in Runs : ReadControlAuto(r)
    \/ \E r \in Runs : ReadResult(r)
    \/ \E r \in Runs : Drain(r)
    \/ \E r \in Runs : EndOfStream(r)
    \/ \E r \in Runs : Finish(r)
    \/ \E r \in Runs, rc \in {0, 1} : Exit(r, rc)

SpecStream == InitStream /\ [][NextStream]_vars

\* A plan session paused by one Pause & Outline Plan click and ended by its
\* result line, then resumed in either permission mode while the clock runs
\* through the cooldown window.
AutoLines == 5
AutoReq == 2
AutoCalls == 1

InitAuto ==
    /\ Base
    /\ limits = [runs |-> {"r1", "r2"}, lines |-> AutoLines, reqs |-> AutoReq,
                 calls |-> AutoCalls]

NextAuto ==
    \/ StartRun("r1", None, FALSE)
    \/ \E a \in BOOLEAN : StartRun("r2", "S1", a)
    \/ \E r \in Runs : ReadInit(r) /\ run[r].foundSession = None
    \/ \E r \in Runs : ReadCanUseTool(r, "ExitPlanMode")
    \/ \E r \in Runs : ReadResult(r)
    \/ \E r \in Runs : Drain(r)
    \/ \E r \in Runs : Finish(r)
    \/ \E r \in Runs : Exit(r, 0)
    \/ Tick
    \/ \E t \in Tasks, q \in DOMAIN reqs : Click(t, "discuss", q)
    \/ \E t \in Tasks : WriteReturns(t)

SpecAuto == InitAuto /\ [][NextAuto]_vars

----------------------------------------------------------------------------
\* _dispatch_callback (telegram/commands/dispatch.py)

controlChannel ==
    <<now, ActiveRunners, SessionStdin, RequestToSession, RequestToInput,
      HandledRequests, DiscussCooldown, DiscussApproved, PendingAsk, procStdin, run,
      task, written, reqs, buttons, calls, clears, nlines, ncalls, limits, cdlog,
      swept>>

asideButCbq == <<chatStore, sched, hook>>

CallbackIds == {None, "cb-123"}
Backends == {"config_error", "none", "plugin_config_error", "found"}
Toasts == {None, "Approved"}
Outcomes == {"result", "no_result", "raises"}

\* _answer_callback(text): answers once, and only a query that has an id
AnswerCallback(st, text) ==
    IF st.id # None /\ ~st.answered
    THEN [st EXCEPT !.answered = TRUE,
                    !.acks = Append(@, [text |-> text, handled |-> st.handled])]
    ELSE st

\* a callback query arrives for a command backend
ReceiveCallback(id, backend, early, toast, outcome) ==
    /\ cbq.pc = "idle"
    /\ cbq.n < limits.calls
    /\ cbq' = [NoDispatch EXCEPT !.pc = "lookup", !.id = id, !.backend = backend,
                                 !.early = early, !.toast = toast, !.outcome = outcome,
                                 !.n = cbq.n + 1]
    /\ UNCHANGED controlChannel
    /\ UNCHANGED asideButCbq

\* get_command and plugin_config: a ConfigError is answered with its text, an
\* unknown command returns; otherwise handle() is next
GetCommand ==
    /\ cbq.pc = "lookup"
    /\ cbq' = CASE cbq.backend \in {"config_error", "plugin_config_error"} ->
                      [AnswerCallback(cbq, "error") EXCEPT !.pc = "finally"]
                 [] cbq.backend = "none" -> [cbq EXCEPT !.pc = "finally"]
                 [] OTHER -> [cbq EXCEPT !.pc = "handle"]
    /\ UNCHANGED controlChannel
    /\ UNCHANGED asideButCbq

\* result = await backend.handle(ctx); an exception is answered with its text
HandleCallback ==
    /\ cbq.pc = "handle"
    /\ LET st == [cbq EXCEPT !.handled = @ + 1]
       IN cbq' = CASE cbq.outcome = "raises" ->
                         [AnswerCallback(st, "error") EXCEPT !.pc = "finally"]
                    [] cbq.outcome = "result" -> [st EXCEPT !.pc = "send"]
                    [] OTHER -> [st EXCEPT !.pc = "finally"]
    /\ UNCHANGED controlChannel
    /\ UNCHANGED asideButCbq

\* executor.send(result.text, ...), register_ephemeral_message
SendResult ==
    /\ cbq.pc = "send"
    /\ cbq' = [cbq EXCEPT !.pc = "finally"]
    /\ UNCHANGED controlChannel
    /\ UNCHANGED asideButCbq

\* finally: await _answer_callback()
FinallyAnswer ==
    /\ cbq.pc = "finally"
    /\ cbq' = [AnswerCallback(cbq, None) EXCEPT !.pc = "idle"]
    /\ UNCHANGED controlChannel
    /\ UNCHANGED asideButCbq

MaxDispatches == 2

InitDispatch ==
    /\ Base
    /\ limits = [runs |-> {}, lines |-> 0, reqs |-> 0, calls |-> MaxDispatches]

NextDispatch ==
    \/ \E id \in CallbackIds, backend \in Backends, early \in BOOLEAN,
          toast \in Toasts, outcome \in Outcomes :
            ReceiveCallback(id, backend, early, toast, outcome)
    \/ GetCommand
    \/ HandleCallback
    \/ SendResult
    \/ FinallyAnswer

SpecDispatch == InitDispatch /\ [][NextDispatch]_vars

----------------------------------------------------------------------------
\* ChatSessionStore (telegram/chat_sessions.py)

asideButStore == <<cbq, sched, hook>>

ChatIds == {"100"}
OwnerIds == {None, "7"}
Engines == {"claude", "codex"}
ResumeValues == {"", "T1"}
Cwds == {"/repo/a", "/repo/b"}

\* _chat_key(chat_id, owner_id)
ChatKey(chat, owner) == <<chat, IF owner = None THEN "chat" ELSE owner>>

\* get_session_resume(chat_id, owner_id, engine)
GetSessionResume(st, chat, owner, engine) ==
    LET key == ChatKey(chat, owner)
    IN IF key \notin DOMAIN st.chats THEN None
       ELSE IF engine \notin DOMAIN st.chats[key] THEN None
       ELSE IF st.chats[key][engine] = "" THEN None
       ELSE st.chats[key][engine]

\* Mutant: sync_startup_cwd records the new cwd and keeps the sessions
SyncKeepsSessions(st, cwd) == [st EXCEPT !.cwd = cwd]

\* sync_startup_cwd(cwd): the store after the call
SyncStartupCwd(st, cwd) ==
    IF st.cwd # None /\ st.cwd # cwd
    THEN [st EXCEPT !.chats = <<>>, !.cwd = cwd]
    ELSE IF st.cwd # cwd THEN [st EXCEPT !.cwd = cwd]
    ELSE st

\* sync_startup_cwd(cwd) at startup
CallSyncStartupCwd(cwd) ==
    /\ LET st == SyncStartupCwd(chatStore, cwd)
       IN chatStore' = [st EXCEPT !.cleared = chatStore.cwd # None /\ chatStore.cwd # cwd]
    /\ UNCHANGED controlChannel
    /\ UNCHANGED asideButStore

\* set_session_resume(chat_id, owner_id, token) in a process whose cwd is pcwd
CallSetSessionResume(chat, owner, engine, value, pcwd) ==
    /\ LET key == ChatKey(chat, owner)
           old == IF key \in DOMAIN chatStore.chats THEN chatStore.chats[key] ELSE <<>>
       IN chatStore' = [chatStore EXCEPT
                           !.cwd = IF @ = None THEN pcwd ELSE @,
                           !.chats = Put(@, key, Put(old, engine, value)),
                           !.cleared = FALSE,
                           !.everStored = TRUE]
    /\ UNCHANGED controlChannel
    /\ UNCHANGED asideButStore

\* clear_sessions(chat_id, owner_id)
CallClearSessions(chat, owner) ==
    /\ ChatKey(chat, owner) \in DOMAIN chatStore.chats
    /\ chatStore' = [chatStore EXCEPT !.chats = Put(@, ChatKey(chat, owner), <<>>)]
    /\ UNCHANGED controlChannel
    /\ UNCHANGED asideButStore

InitStore ==
    /\ Base
    /\ limits = [runs |-> {}, lines |-> 0, reqs |-> 0, calls |-> 0]

NextStore ==
    \/ \E cwd \in Cwds : CallSyncStartupCwd(cwd)
    \/ \E chat \in ChatIds, owner \in OwnerIds, engine \in Engines,
          value \in ResumeValues, pcwd \in Cwds :
            CallSetSessionResume(chat, owner, engine, value, pcwd)
    \/ \E chat \in ChatIds, owner \in OwnerIds : CallClearSessions(chat, owner)

SpecStore == InitStore /\ [][NextStore]_vars

----------------------------------------------------------------------------
\* run_cron_scheduler, cron_matches (triggers/cron.py)

asideButSched == <<cbq, chatStore, hook>>

MinutesPerHour == 60
MinutesPerDay == 24 * MinutesPerHour

\* the days the clock runs through
CronDays == 2

\* one comma-separated part of a cron field: "*", "*/step", "lo-hi", "n"
Star == [kind |-> "any", lo |-> 0, hi |-> 0, step |-> 1]
StarStep(n) == [kind |-> "any", lo |-> 0, hi |-> 0, step |-> n]
Range(lo, hi) == [kind |-> "range", lo |-> lo, hi |-> hi, step |-> 1]
Value(n) == [kind |-> "value", lo |-> n, hi |-> n, step |-> 1]

\* _parse_field: the integers a field matches; a part with a step below one
\* makes the field match nothing
ParseField(field, minVal, maxVal) ==
    IF \E part \in field : part.step < 1 THEN {}
    ELSE UNION {
        CASE part.kind = "any" ->
                 {v \in minVal..maxVal : (v - minVal) % part.step = 0}
          [] part.kind = "range" ->
                 {v \in part.lo..part.hi : (v - part.lo) % part.step = 0}
          [] OTHER -> {part.lo}
        : part \in field}

\* datetime.datetime.now() at minute t of the clock; the first day is Monday
\* 1 June, weekday() counts from Monday = 0
DateTime(t) ==
    [minute |-> t % MinutesPerHour,
     hour |-> (t % MinutesPerDay) \div MinutesPerHour,
     day |-> 1 + (t \div MinutesPerDay),
     month |-> 6,
     weekday |-> (t \div MinutesPerDay) % 7]

\* cron_matches(expression, now) for an expression of five fields
CronMatches(e, dt) ==
    LET cronDow == (dt.weekday + 1) % 7
        weekdays == ParseField(e[5], 0, 7)
    IN /\ dt.minute \in ParseField(e[1], 0, 59)
       /\ dt.hour \in ParseField(e[2], 0, 23)
       /\ dt.day \in ParseField(e[3], 1, 31)
       /\ dt.month \in ParseField(e[4], 1, 12)
       /\ cronDow \in weekdays \/ (7 \in weekdays /\ cronDow = 0)

\* the schedules "* * * * *", "*/30 * * * *", "0 * * * *", "0 9 * * *",
\* "0 9 * * 1-5" and "30 9,17 * * 7"
Schedules ==
    [minutely |-> <<{Star}, {Star}, {Star}, {Star}, {Star}>>,
     halfhourly |-> <<{StarStep(30)}, {Star}, {Star}, {Star}, {Star}>>,
     hourly |-> <<{Value(0)}, {Star}, {Star}, {Star}, {Star}>>,
     daily |-> <<{Value(0)}, {Value(9)}, {Star}, {Star}, {Star}>>,
     weekdays |-> <<{Value(0)}, {Value(9)}, {Star}, {Star}, {Range(1, 5)}>>,
     sundays |-> <<{Value(30)}, {Value(9), Value(17)}, {Star}, {Star}, {Value(7)}>>]

\* the crons lists the scheduler is started with: cron id -> schedule
CronLists ==
    {[id \in ids |-> Schedules[id]] :
        ids \in {{"daily"}, {"minutely", "hourly"}, {"halfhourly", "weekdays", "sundays"}}}

\* the minutes of the first day the scheduler is started at: 00:00 and 08:59
StartMinutes == {0, 539}

\* Mutant: the key of a firing holds the date as well
MinuteKeyWithDate(dt) == <<dt.day, dt.hour, dt.minute>>

\* key = (now.hour, now.minute)
FiringKey(dt) == <<dt.hour, dt.minute>>

\* run_cron_scheduler is called with a crons list; last_fired is empty
RunCronScheduler(crons, start) ==
    /\ sched.pc = "off"
    /\ sched' = [pc |-> "tick", crons |-> crons, t |-> start, lastFired |-> <<>>,
                 fired |-> [id \in DOMAIN crons |-> 0], tickedAt |-> 0 - 1]
    /\ UNCHANGED controlChannel
    /\ UNCHANGED asideButSched

\* one pass of the loop: every cron whose schedule matches now is dispatched
\* unless last_fired holds the key of now for it
CronTick ==
    /\ sched.pc = "tick"
    /\ LET dt == DateTime(sched.t)
           key == FiringKey(dt)
           firing == {id \in DOMAIN sched.crons :
                        /\ CronMatches(sched.crons[id], dt)
                        /\ ~(id \in DOMAIN sched.lastFired /\ sched.lastFired[id] = key)}
       IN sched' = [sched EXCEPT
                       !.pc = "sleep",
                       !.lastFired = [id \in (DOMAIN @) \cup firing |->
                                         IF id \in firing THEN key ELSE @[id]],
                       !.fired = [id \in DOMAIN sched.crons |->
                                     IF id \in firing THEN 1 ELSE 0],
                       !.tickedAt = sched.t]
    /\ UNCHANGED controlChannel
    /\ UNCHANGED asideButSched

\* anyio.sleep(60 - now.second + 0.1): the next pass is in the next minute
CronSleep ==
    /\ sched.pc = "sleep"
    /\ sched.t + 1 < CronDays * MinutesPerDay
    /\ sched' = [sched EXCEPT !.pc = "tick", !.t = @ + 1]
    /\ UNCHANGED controlChannel
    /\ UNCHANGED asideButSched

InitCron ==
    /\ Base
    /\ limits = [runs |-> {}, lines |-> 0, reqs |-> 0, calls |-> 0]

NextCron ==
    \/ \E crons \in CronLists, start \in StartMinutes : RunCronScheduler(crons, start)
    \/ CronTick
    \/ CronSleep

SpecCron == InitCron /\ [][NextCron]_vars

----------------------------------------------------------------------------
\* build_webhook_app: handle_webhook, _process_webhook (triggers/server.py),
\* TokenBucketLimiter (triggers/rate_limit.py), verify_auth (triggers/auth.py)

asideButHook == <<cbq, chatStore, sched>>

\* settings.server.max_body_bytes, at its smallest value
MaxBodyBytes == 1024

\* settings.server.rate_limit, and the window of the limiter in seconds
HookRate == 1
HookWindow == 60

\* the requests handled, the seconds between two readings of the clock and the
\* last reading
MaxHookRequests == 2
HookTickSeconds == 30
HookClockMax == 60

\* settings.webhooks by path: a GitHub hook with a bearer secret and an event
\* filter, and an open hook without filter
Webhooks ==
    ("/hooks/a" :> [id |-> "wh-a", auth |-> "bearer", secret |-> "s3cret",
                    event_filter |-> "push"])
    @@ ("/hooks/b" :> [id |-> "wh-b", auth |-> "none", secret |-> None,
                       event_filter |-> None])

\* Content-Length and body sizes; 0 stands for a missing header or an empty body
BodySizes == {0, 10, MaxBodyBytes + 1}

\* a request: path, declared Content-Length, body (length and what json.loads
\* makes of it), bearer token, event header. A declared length is that of the
\* body; what no check reads is left at one value: the JSON of an empty or
\* oversized body, the token and the event header where the webhook has no
\* secret and no filter, everything of a request for an unknown path
HookRequests ==
    {r \in [path : (DOMAIN Webhooks) \cup {"/nope"},
            declared : BodySizes,
            bodyLen : BodySizes,
            json : {"dict", "list", "invalid"},
            token : {"", "s3cret"},
            event : {"", "push", "issues"}] :
        /\ r.declared \in {0, r.bodyLen}
        /\ r.bodyLen # 10 => r.json = "dict"
        /\ r.path # "/hooks/a" => r.token = "" /\ r.event = ""
        /\ r.path = "/nope" => r.bodyLen = 0}

\* what the parts of the handler outside this repository do with a request:
\* whether request.read() refuses a body above client_max_size, and whether
\* render_prompt or dispatch_webhook raise; read has nothing to refuse in a
\* body within the limit, and nothing is rendered for a request whose size,
\* token, JSON or event header is refused
HookOutcomes == {"ok", "render_raises", "dispatch_raises"}

Renderable(r) ==
    /\ r.path \in DOMAIN Webhooks
    /\ r.bodyLen <= MaxBodyBytes
    /\ r.json # "invalid"
    /\ r.path = "/hooks/a" => r.token = "s3cret" /\ r.event = "push"

HookInputs ==
    {i \in [req : HookRequests, readRaises : BOOLEAN, outcome : HookOutcomes] :
        /\ i.readRaises => i.req.bodyLen > MaxBodyBytes /\ i.req.declared = 0
        /\ i.outcome # "ok" => Renderable(i.req)}

GlobalKey == "__global__"

\* a bucket holds its tokens in units of 1 / HookWindow tokens, so that the
\* refill elapsed * (rate / window) is a whole number
FullBucket(t) == [tokens |-> HookRate * HookWindow, last |-> t]

\* TokenBucketLimiter.allow(key) at time t
Allow(buckets, key, t) ==
    LET b == IF key \in DOMAIN buckets THEN buckets[key] ELSE FullBucket(t)
        tokens == Min(HookRate * HookWindow, b.tokens + (t - b.last) * HookRate)
    IN IF tokens >= HookWindow
       THEN [ok |-> TRUE, buckets |-> Put(buckets, key, [tokens |-> tokens - HookWindow,
                                                        last |-> t])]
       ELSE [ok |-> FALSE, buckets |-> Put(buckets, key, [tokens |-> tokens, last |-> t])]

\* verify_auth for the modes none and bearer
VerifyAuth(wh, r) ==
    IF wh.auth = "none" THEN TRUE
    ELSE IF wh.secret = None THEN FALSE
    ELSE IF wh.auth = "bearer" THEN r.token = wh.secret
    ELSE FALSE

\* Mutant: the rate limits are applied before authentication
RateLimitBeforeAuth == <<"size", "rate", "auth", "json", "filter">>

\* the checks of _process_webhook in the order of the code
CheckOrder == <<"size", "auth", "rate", "json", "filter">>

\* one check of _process_webhook: whether the request passes, the buckets
\* after it, and the response when it does not pass
Check(step, wh, r, readRaises, buckets, t) ==
    CASE step = "size" ->
             [pass |-> r.declared <= MaxBodyBytes /\ r.bodyLen <= MaxBodyBytes,
              buckets |-> buckets,
              status |-> IF r.declared <= MaxBodyBytes /\ readRaises
                         THEN "500" ELSE "413"]
      [] step = "auth" ->
             [pass |-> VerifyAuth(wh, r), buckets |-> buckets, status |-> "401"]
      [] step = "rate" ->
             LET own == Allow(buckets, wh.id, t)
                 all == Allow(own.buckets, GlobalKey, t)
             IN IF ~own.ok
                THEN [pass |-> FALSE, buckets |-> own.buckets, status |-> "429"]
                ELSE [pass |-> all.ok, buckets |-> all.buckets, status |-> "429"]
      [] step = "json" ->
             [pass |-> r.bodyLen = 0 \/ r.json # "invalid", buckets |-> buckets,
              status |-> "400"]
      [] OTHER ->
             [pass |-> wh.event_filter = None \/ r.event = wh.event_filter,
              buckets |-> buckets, status |-> "filtered"]

RECURSIVE RunChecks(_, _, _, _, _, _, _)
\* the checks in their order up to the first that rejects, then render_prompt
\* and dispatch_webhook; an exception becomes the 500 of handle_webhook
RunChecks(steps, wh, r, readRaises, outcome, buckets, t) ==
    IF steps = <<>>
    THEN [status |-> IF outcome = "ok" THEN "202" ELSE "500",
          dispatched |-> IF outcome = "render_raises" THEN 0 ELSE 1,
          buckets |-> buckets]
    ELSE LET c == Check(Head(steps), wh, r, readRaises, buckets, t)
         IN IF c.pass
            THEN RunChecks(Tail(steps), wh, r, readRaises, outcome, c.buckets, t)
            ELSE [status |-> c.status, dispatched |-> 0, buckets |-> c.buckets]

\* handle_webhook for request r
HandleWebhook(r, readRaises, outcome) ==
    /\ hook.n < MaxHookRequests
    /\ LET res == IF r.path \notin DOMAIN Webhooks
                  THEN [status |-> "404", dispatched |-> 0, buckets |-> hook.buckets]
                  ELSE RunChecks(CheckOrder, Webhooks[r.path], r, readRaises, outcome,
                                 hook.buckets, hook.clock)
       IN hook' = [hook EXCEPT !.buckets = res.buckets,
                               !.n = @ + 1,
                               !.dispatches = @ + res.dispatched,
                               !.last = [req |-> r, status |-> res.status,
                                         dispatched |-> res.dispatched,
                                         at |-> hook.clock],
                               !.before = hook.buckets]
    /\ UNCHANGED controlChannel
    /\ UNCHANGED asideButHook

\* time passes between two requests
HookTick ==
    /\ hook.clock + HookTickSeconds <= HookClockMax
    /\ hook' = [hook EXCEPT !.clock = @ + HookTickSeconds]
    /\ UNCHANGED controlChannel
    /\ UNCHANGED asideButHook

InitHook ==
    /\ Base
    /\ limits = [runs |-> {}, lines |-> 0, reqs |-> 0, calls |-> 0]

NextHook ==
    \/ \E i \in HookInputs : HandleWebhook(i.req, i.readRaises, i.outcome)
    \/ HookTick

SpecHook == InitHook /\ [][NextHook]_vars

----------------------------------------------------------------------------
\* Tool calls of one run: tool_use and tool_result lines in any order and
\* number, and permission requests for ExitPlanMode answered by nobody.
ToolLines == 5
ToolReq == 2
ToolUseIds == {"tu1", "tu2"}

InitTools ==
    /\ Base
    /\ limits = [runs |-> {"r1"}, lines |-> ToolLines, reqs |-> ToolReq, calls |-> 0]

NextTools ==
    \/ StartRun("r1", None, FALSE)
    \/ ReadInit("r1") /\ run["r1"].foundSession = None
    \/ \E id \in ToolUseIds : ReadToolUse("r1", id)
    \/ \E id \in ToolUseIds : ReadToolResult("r1", id)
    \/ ReadCanUseTool("r1", "ExitPlanMode")
    \/ ReadResult("r1")
    \/ EndOfStream("r1")
    \/ Finish("r1")
    \/ \E rc \in {0, 1} : Exit("r1", rc)

SpecTools == InitTools /\ [][NextTools]_vars

\* One run whose stdin stops working: automatic and interactive requests, a
\* click, and the stream up to its end.
PipeLines == 4
PipeReq == 2
PipeCalls == 1

InitPipe ==
    /\ Base
    /\ limits = [runs |-> {"r1"}, lines |-> PipeLines, reqs |-> PipeReq,
                 calls |-> PipeCalls]

NextPipe ==
    \/ StartRun("r1", None, FALSE)
    \/ ReadInit("r1") /\ run["r1"].foundSession = None
    \/ ReadControlAuto("r1")
    \/ ReadCanUseTool("r1", "ExitPlanMode")
    \/ Drain("r1")
    \/ BreakPipe("r1")
    \/ \E a \in {"approve", "deny"}, q \in DOMAIN reqs : Click("t1", a, q)
    \/ WriteReturns("t1")
    \/ ReadResult("r1")
    \/ EndOfStream("r1")
    \/ Finish("r1")
    \/ \E rc \in {0, 1} : Exit("r1", rc)

SpecPipe == InitPipe /\ [][NextPipe]_vars

\* One run whose stdout carries malformed lines between the others.
MalformedLines == 4
MalformedReq == 2

InitMalformed ==
    /\ Base
    /\ limits = [runs |-> {"r1"}, lines |-> MalformedLines, reqs |-> MalformedReq,
                 calls |-> 0]

NextMalformed ==
    \/ \E a \in BOOLEAN : StartRun("r1", None, a)
    \/ ReadInit("r1") /\ run["r1"].foundSession = None
    \/ \E failure \in DecodeFailures : ReadMalformed("r1", failure)
    \/ \E n \in TextLengths : ReadAssistantText("r1", n)
    \/ ReadControlAuto("r1")
    \/ ReadCanUseTool("r1", "ExitPlanMode")
    \/ Drain("r1")
    \/ ReadResult("r1")
    \/ EndOfStream("r1")
    \/ Finish("r1")
    \/ \E rc \in {0, 1} : Exit("r1", rc)

SpecMalformed == InitMalformed /\ [][NextMalformed]_vars

\* Two sessions registered at different times and the explicit sweep of stale
\* registrations, called with its default max_age_seconds.
SESSION_MAX_AGE_SECONDS == 3600
SweepLines == 3
SweepCalls == 2
SweepReadings == {1, SESSION_MAX_AGE_SECONDS, SESSION_MAX_AGE_SECONDS + 1}

InitSweep ==
    /\ Base
    /\ limits = [runs |-> {"r1", "r2"}, lines |-> SweepLines, reqs |-> 0,
                 calls |-> SweepCalls]

NextSweep ==
    \/ \E r \in Runs : StartRun(r, None, FALSE)
    \/ \E r \in Runs : ReadInit(r) /\ run[r].foundSession = None
    \/ \E t \in SweepReadings : Wait(t)
    \/ CleanupExpiredSessions(SESSION_MAX_AGE_SECONDS)
    \/ \E r \in Runs : ReadResult(r)
    \/ \E r \in Runs : EndOfStream(r)
    \/ \E r \in Runs : Finish(r)
    \/ \E r \in Runs : Exit(r, 0)

SpecSweep == InitSweep /\ [][NextSweep]_vars

\* The same streams when run_impl is scheduled and the subprocess exits once its
\* stdin has been closed; nothing is assumed about stdout: no further line and
\* no EOF ever has to arrive.
SpecStreamFair ==
    /\ InitStream
    /\ [][NextStream]_vars
    /\ \A r \in Runs : WF_vars(Drain(r))
    /\ \A r \in Runs : WF_vars(Finish(r))
    /\ \A r \in Runs : WF_vars(\E rc \in {0, 1} : Exit(r, rc))

----------------------------------------------------------------------------
\* Properties

Count(seq, x) == Cardinality({i \in 1..Len(seq) : seq[i] = x})

Responses(q, behavior) == {i \in 1..Len(written[q]) : written[q][i].behavior = behavior}

AutoClasses == {"auto_approve", "discuss_approved", "cooldown_deny"}

\* C1: for every request_id at most one control_response line is written to
\* stdin, whatever the callbacks, answers, drains and duplicate deliveries.
C1_AtMostOneResponse ==
    \A q \in DOMAIN written : Len(written[q]) <= 1

\* C2: once the CompletedEvent of a run has been emitted, neither SessionStdin
\* nor ActiveRunners holds an entry for the run's session_id.
C2_RegistriesClearedAfterCompleted ==
    \A r \in Runs :
        Count(run[r].events, "completed") > 0 =>
            /\ run[r].sid \notin DOMAIN SessionStdin
            /\ run[r].sid \notin DOMAIN ActiveRunners

\* the user clicked Approve on the keyboard of request q
UserApproved(q) ==
    \/ \E i \in 1..Len(calls[q]) : calls[q][i].kind = "approve"
    \/ \E t \in Tasks : task[t].pc = "sending" /\ task[t].q = q /\ task[t].kind = "approve"

\* the user clicked Approve Plan on the da: keyboard of session s
PlanApproved(s) ==
    /\ s # None
    /\ DaId(s) \in DOMAIN calls
    /\ \E i \in 1..Len(calls[DaId(s)]) : calls[DaId(s)][i].kind = "approve"

\* C3: a request for ExitPlanMode or AskUserQuestion is queued for automatic
\* approval only when it is ExitPlanMode and the run is in auto mode or the user
\* clicked Approve Plan for the session; otherwise it is answered with allow
\* only after the user clicked Approve for it.
C3_NoAutoApproveWithoutBypass ==
    \A q \in DOMAIN reqs :
        reqs[q].tool \in ToolsRequiringApproval =>
            /\ reqs[q].class \in {"auto_approve", "discuss_approved"} =>
                  /\ reqs[q].tool = "ExitPlanMode"
                  /\ run[reqs[q].run].auto \/ PlanApproved(reqs[q].sid)
            /\ Responses(q, "allow") # {} =>
                  \/ reqs[q].class \in {"auto_approve", "discuss_approved"}
                  \/ UserApproved(q)

\* C3 witness: in a plan-mode run an ExitPlanMode request was denied by the
\* cooldown, the user clicked Approve Plan, and the next ExitPlanMode request
\* was allowed by the drain.
C3_Witness ==
    \E q1, q2 \in DOMAIN reqs :
        /\ ~run[reqs[q1].run].auto
        /\ reqs[q1].class = "cooldown_deny"
        /\ reqs[q2].class = "discuss_approved"
        /\ Responses(q2, "allow") # {}

\* C4: every control response for a request of a session is written to the
\* stdin handle of a subprocess of that session, never to another session's.
C4_ResponseOnOwnSessionStdin ==
    \A q \in DOMAIN written :
        \A i \in 1..Len(written[q]) :
            run[written[q][i].handle].sid = run[reqs[q].run].sid

\* C5: whenever a run is about to read the next stdout line (or has left the
\* loop), both queues are empty and every request the run queued for an
\* automatic answer has its response on stdin.
C5_QueuesDrainedBeforeNextRead ==
    \A r \in Runs :
        run[r].pc \in {"read", "closing", "exiting", "done"} =>
            /\ run[r].approveQ = <<>>
            /\ run[r].denyQ = <<>>
            /\ \A q \in DOMAIN reqs :
                  (reqs[q].run = r /\ reqs[q].class \in AutoClasses) => Len(written[q]) >= 1

\* C5 witness: two consecutive zero-event auto-approved requests, both answered,
\* and the run is back at the read.
C5_Witness ==
    \E r \in Runs :
        /\ run[r].pc = "read"
        /\ run[r].events = <<>>
        /\ {1, 2} \subseteq DOMAIN reqs
        /\ \A q \in {1, 2} : reqs[q].run = r /\ reqs[q].class = "auto_approve"
                             /\ Len(written[q]) = 1

C8_AllowCarriesUpdatedInput ==
    \A q \in DOMAIN written :
        reqs[q].kind = "can_use_tool" =>
            \A i \in Responses(q, "allow") : written[q][i].updatedInput = reqs[q].input

\* C9: no deny response written to stdin contains updatedInput.
C9_DenyHasNoUpdatedInput ==
    \A q \in DOMAIN written :
        \A i \in Responses(q, "deny") : written[q][i].updatedInput = NoInput

\* C9 witness: a Pause & Outline Plan deny of a registered tool request and an
\* automatic cooldown deny are both on stdin.
C9_Witness ==
    \E q1, q2 \in DOMAIN written :
        /\ reqs[q1].class = "interactive" /\ reqs[q1].kind = "can_use_tool"
        /\ \E i \in Responses(q1, "deny") : written[q1][i].message = "discuss"
        /\ \E i \in Responses(q2, "deny") : written[q2][i].message = "escalation"

\* C10: for every tool request that is not auto-approved, RequestToInput[req] is
\* set when its warning is yielded, and is gone once a response has been written.
C10_InputStoredThenPopped ==
    [][ /\ \A q \in DOMAIN reqs' :
              (/\ <<"approve", q>> \notin buttons
               /\ <<"approve", q>> \in buttons'
               /\ reqs'[q].kind = "can_use_tool")
              => q \in DOMAIN RequestToInput'
        /\ \A q \in DOMAIN written' :
              Len(written'[q]) > 0 => q \notin DOMAIN RequestToInput' ]_vars

\* request q had a send call that began and ended in this step
CallMadeInStep(q) ==
    /\ q \in DOMAIN calls
    /\ Len(calls'[q]) = Len(calls[q]) + 1
    /\ task' = task

LastCall(q) == calls'[q][Len(calls'[q])]

\* C11: a send call for a request that is neither registered nor handled, or
\* whose session is not in ActiveRunners, returns failure and writes nothing;
\* for an inactive session the request's RequestToSession and RequestToInput
\* entries are removed, and no other registry entry changes.
C11_FailureWritesNothing ==
    [][ \A q \in DOMAIN reqs :
          (/\ CallMadeInStep(q)
           /\ \/ q \notin DOMAIN RequestToSession /\ q \notin HandledRequests
              \/ q \in DOMAIN RequestToSession
                 /\ RequestToSession[q] \notin DOMAIN ActiveRunners)
          => /\ LastCall(q).res = "fail"
             /\ written' = written
             /\ RequestToSession' = Pop(RequestToSession, q)
             /\ RequestToInput' = IF q \in DOMAIN RequestToSession
                                  THEN Pop(RequestToInput, q) ELSE RequestToInput
             /\ UNCHANGED <<ActiveRunners, SessionStdin, HandledRequests,
                            DiscussCooldown, DiscussApproved>>
             /\ LastCall(q).kind # "answer" => PendingAsk' = PendingAsk ]_vars

\* C11 witness: a click for a request that was never registered has failed, and
\* so has a click for a registered request whose session had ended, which
\* purged the request's entries.
C11_Witness ==
    \E q1, q2 \in DOMAIN reqs :
        /\ reqs[q1].sid = None /\ reqs[q1].class = "interactive"
        /\ calls[q1] # <<>> /\ calls[q1][1].res = "fail"
        /\ reqs[q2].sid # None /\ reqs[q2].class = "interactive"
        /\ reqs[q2].kind = "can_use_tool"
        /\ calls[q2] # <<>> /\ calls[q2][1].res = "fail"
        /\ written[q1] = <<>> /\ written[q2] = <<>>
        /\ q2 \notin DOMAIN RequestToSession /\ q2 \notin DOMAIN RequestToInput

\* C12: for each session, ActiveRunners[session_id] and SessionStdin[session_id]
\* are each written exactly once, at the StartedEvent, and each removed exactly
\* once, at CompletedEvent, error or stream end.  Stated for every finished run
\* that yielded a StartedEvent, with the run's own counts of writes (arSet,
\* ssSet) and of removals that found an entry (arDel, ssDel).
C12_SetOnceRemovedOnce ==
    \A r \in Runs :
        (run[r].pc = "done" /\ Count(run[r].events, "started") = 1)
        => /\ run[r].arSet = 1 /\ run[r].ssSet = 1
           /\ run[r].arDel = 1 /\ run[r].ssDel = 1

\* request q is read from the stdout of run r in this step
Arrives(q, r) ==
    /\ q \notin DOMAIN reqs
    /\ q \in DOMAIN reqs'
    /\ reqs'[q].run = r

\* the cooldown window of session s is active: a Pause click was recorded at
\* most min(30 * count, 120) seconds ago
WindowActive(s) ==
    /\ s \in DOMAIN DiscussCooldown
    /\ now - DiscussCooldown[s].ts <= Min(30 * DiscussCooldown[s].count, 120)

InQueue(queue, q) == \E i \in 1..Len(queue) : queue[i][1] = q

\* a request denied by the cooldown is in no registry, has no buttons of its
\* own, and has exactly one deny line on stdin once the deny queue is drained
CooldownDeniedNeverRegistered ==
    \A q \in DOMAIN reqs :
        reqs[q].class = "cooldown_deny"
        => /\ q \notin DOMAIN RequestToSession
           /\ q \notin DOMAIN RequestToInput
           /\ \A a \in {"approve", "deny", "discuss"} : <<a, q>> \notin buttons
           /\ IF InQueue(run[reqs[q].run].denyQ, q)
              THEN written[q] = <<>>
              ELSE /\ Len(written[q]) = 1
                   /\ written[q][1].behavior = "deny"

\* request q of run r arrives as an ExitPlanMode request of session s while
\* the window of s is active and neither bypass applies, and is then denied
\* with the synthetic keyboard
DeniedInWindow(r, q, s) ==
    (/\ Arrives(q, r)
     /\ reqs'[q].tool = "ExitPlanMode"
     /\ s # None
     /\ WindowActive(s)
     /\ ~run[r].auto
     /\ s \notin DiscussApproved)
    => /\ reqs'[q].class = "cooldown_deny"
       /\ InQueue(run'[r].denyQ, q)
       /\ ~\E i \in 1..Len(run'[r].approveQ) : run'[r].approveQ[i] = q
       /\ buttons' = buttons \cup {<<"approve", DaId(s)>>, <<"deny", DaId(s)>>}
       /\ DaId(s) \in DOMAIN RequestToSession'
       /\ RequestToSession'[DaId(s)] = s

\* C13: while the cooldown window of a session is active (and neither auto mode
\* nor DiscussApproved applies), every ExitPlanMode request of that session is
\* answered with an automatic deny, the only buttons sent are Approve Plan and
\* Deny under the synthetic da:{session} id, and the request itself is never
\* registered in RequestToSession or RequestToInput.
C13_CooldownDeniesWithSyntheticButtons ==
    /\ [][ \A r \in Runs : \A q \in DOMAIN reqs' :
             DeniedInWindow(r, q, run[r].sid) ]_vars
    /\ []CooldownDeniedNeverRegistered

\* C13 for the requests read after the run's system init line, where the
\* translator knows the session (factory.resume)
CooldownDeniesOnceSessionKnown ==
    /\ [][ \A r \in Runs : \A q \in DOMAIN reqs' :
             DeniedInWindow(r, q, run[r].factoryResume) ]_vars
    /\ []CooldownDeniedNeverRegistered

\* number of Approve Plan clicks handled for session s
ApprovePlanClicks(s) ==
    IF DaId(s) \in DOMAIN calls
    THEN Cardinality({i \in 1..Len(calls[DaId(s)]) : calls[DaId(s)][i].kind = "approve"})
    ELSE 0

\* request q of run r arrives as an ExitPlanMode request of session s, which is
\* in DiscussApproved, and is approved and uses the approval up
ApprovalUsedUp(r, q, s) ==
    (/\ Arrives(q, r)
     /\ reqs'[q].tool = "ExitPlanMode"
     /\ s # None
     /\ s \in DiscussApproved)
    => /\ \E i \in 1..Len(run'[r].approveQ) : run'[r].approveQ[i] = q
       /\ s \notin DiscussApproved'
       /\ s \notin DOMAIN DiscussCooldown'

\* C14: an ExitPlanMode request for a session in DiscussApproved is
\* auto-approved and in the same step removes the session from DiscussApproved
\* and clears its cooldown, so one Approve Plan click auto-approves at most one
\* ExitPlanMode request.
C14_ApprovePlanApprovesOneRequest ==
    /\ [][ \A r \in Runs : \A q \in DOMAIN reqs' :
             ApprovalUsedUp(r, q, run[r].sid) ]_vars
    /\ [](\A s \in Sessions :
            Cardinality({q \in DOMAIN reqs : reqs[q].class = "discuss_approved"
                                             /\ reqs[q].sid = s})
            <= ApprovePlanClicks(s))

\* C14 for the requests of a run that is not in auto mode, read after the run's
\* system init line
ApprovalUsedUpOnceSessionKnown ==
    /\ [][ \A r \in Runs : \A q \in DOMAIN reqs' :
             ~run[r].auto => ApprovalUsedUp(r, q, run[r].factoryResume) ]_vars
    /\ [](\A s \in Sessions :
            Cardinality({q \in DOMAIN reqs : reqs[q].class = "discuss_approved"
                                             /\ reqs[q].sid = s})
            <= ApprovePlanClicks(s))

\* number of calls logged for id q
CallsLogged(q) == IF q \in DOMAIN calls THEN Len(calls[q]) ELSE 0

CooldownCall(op) == cdlog'.flip # cdlog.flip /\ cdlog'.op = op

\* C16: after N Pause & Outline Plan clicks on a session with no clear in
\* between, the stored count is N and the cooldown window is min(30 * N, 120)
\* seconds, whether or not earlier windows expired between the clicks: a check
\* reports the cooldown exactly while the last click is at most that old.
C16_CountAndWindowFollowClicks ==
    /\ [](cdlog.sets >= 1
          => /\ CooldownSession \in DOMAIN DiscussCooldown
             /\ DiscussCooldown[CooldownSession].count = cdlog.sets)
    /\ [][ (/\ CooldownCall("check")
            /\ cdlog.sets >= 1
            /\ DiscussCooldown[CooldownSession].ts # 0)
           => (cdlog'.res = "cooling"
               <=> now - DiscussCooldown[CooldownSession].ts
                     <= Min(30 * cdlog.sets, 120)) ]_vars

\* C16 witness: five clicks, a window that expired between them, and a check
\* 120 seconds after the fifth click that still reports the cooldown
C16_Witness ==
    /\ cdlog.sets = 5
    /\ cdlog.expired
    /\ cdlog.op = "check" /\ cdlog.res = "cooling" /\ cdlog.age = 120
    /\ DiscussCooldown[CooldownSession].count = 5

\* C17: a check that finds the window expired reports clear and keeps the
\* entry as (0, count); the count is reset only by an explicit clear; the next
\* Pause & Outline Plan click after an expiry stores count + 1.
C17_ExpiryKeepsCount ==
    [][ LET s == CooldownSession
            cd == DiscussCooldown
        IN /\ (/\ CooldownCall("check")
               /\ s \in DOMAIN cd
               /\ now - cd[s].ts > Min(30 * cd[s].count, 120))
              => /\ cdlog'.res = "clear"
                 /\ s \in DOMAIN DiscussCooldown'
                 /\ DiscussCooldown'[s] = [ts |-> 0, count |-> cd[s].count]
           /\ CooldownCall("set")
              => /\ s \in DOMAIN DiscussCooldown'
                 /\ DiscussCooldown'[s].count =
                      IF s \in DOMAIN cd THEN cd[s].count + 1 ELSE 1
                 /\ DiscussCooldown'[s].ts = now
           /\ (/\ s \in DOMAIN cd
               /\ \/ s \notin DOMAIN DiscussCooldown'
                  \/ DiscussCooldown'[s].count < cd[s].count)
              => CooldownCall("clear") ]_vars

\* C17 witness: a click, a check that found the window expired, and a second
\* click, which stored count 2
C17_Witness ==
    /\ cdlog.op = "set"
    /\ cdlog.expired
    /\ cdlog.sets = 2
    /\ DiscussCooldown[CooldownSession].count = 2

\* C18: a check made when now - last_ts equals the window length exactly is
\* inside the window: it returns the escalation message and leaves the entry
\* unchanged.
C18_WindowEndIsInside ==
    [][ LET s == CooldownSession
            cd == DiscussCooldown
        IN (/\ CooldownCall("check")
            /\ s \in DOMAIN cd
            /\ now - cd[s].ts = Min(30 * cd[s].count, 120))
           => /\ cdlog'.res = "cooling"
              /\ DiscussCooldown' = DiscussCooldown ]_vars

\* C18 witness: checks made exactly 30 seconds after a first click and exactly
\* 60 seconds after a second one reported the cooldown
C18_Witness ==
    /\ cdlog.op = "check" /\ cdlog.res = "cooling"
    /\ CooldownSession \in DOMAIN DiscussCooldown
    /\ cdlog.age = 30 * DiscussCooldown[CooldownSession].count
    /\ DiscussCooldown[CooldownSession].count \in {1, 2}

\* C19: when an ExitPlanMode request arrives during an active cooldown, the
\* automatic deny carries the wait-for-user message if and only if the longest
\* assistant text block seen since the cooldown was set has at least 200
\* characters; with a longest block of 199 characters it carries the
\* escalation message.
C19_OutlineDecidesDenyMessage ==
    \A q \in DOMAIN reqs :
        (reqs[q].class = "cooldown_deny" /\ written[q] # <<>>)
        => /\ written[q][1].message = "wait" <=> reqs[q].textSince >= 200
           /\ reqs[q].textSince = 199 => written[q][1].message = "escalation"

\* C20: after any control request has been processed, pendingControlRequests
\* holds no entry older than 300 s: the expiry sweep runs on every
\* control-request arrival, whichever way the arriving request is classified.
C20_NoExpiredPendingAfterArrival ==
    [][ \A r \in Runs : \A q \in DOMAIN reqs' :
          Arrives(q, r)
          => \A rid \in DOMAIN run'[r].pcr : now' - run'[r].pcr[rid] <= 300 ]_vars

\* C20 for the arrivals that are shown to the user
NoExpiredPendingAfterInteractive ==
    [][ \A r \in Runs : \A q \in DOMAIN reqs' :
          (Arrives(q, r) /\ reqs'[q].class = "interactive")
          => \A rid \in DOMAIN run'[r].pcr : now' - run'[r].pcr[rid] <= 300 ]_vars

\* the CompletedEvents run_impl synthesised after the stdout loop of run r
Synthesised(r) ==
    {i \in 1..Len(run[r].completions) : run[r].completions[i].source # "result"}

\* C21: after stdout EOF without a CompletedEvent, a non-zero exit code gives a
\* synthesised CompletedEvent with ok=false, and exit code 0 gives one with
\* ok=true and the last assistant text as answer.
C21_StreamEndIsSuccess ==
    \A r \in Runs : \A i \in Synthesised(r) :
        LET c == run[r].completions[i]
        IN /\ c.source = "process_error" => ~c.ok
           /\ c.source = "stream_end" => c.ok /\ c.answer = run[r].lastText

\* C21 as the code has it: the synthesised CompletedEvent is not ok whatever
\* the exit code; after exit code 0 it carries the last assistant text when a
\* session was found in the stream and no answer otherwise.
C21_StreamEndIsError ==
    \A r \in Runs : \A i \in Synthesised(r) :
        LET c == run[r].completions[i]
        IN /\ ~c.ok
           /\ c.source = "process_error" => c.answer = 0
           /\ c.source = "stream_end"
              => c.answer = IF run[r].foundSession # None THEN run[r].lastText ELSE 0

\* C21 witness: a stream that ended with exit code 0 after an assistant text,
\* and one that ended with a non-zero exit code
C21_Witness ==
    \E r1, r2 \in Runs :
        /\ \E i \in Synthesised(r1) :
              /\ run[r1].completions[i].source = "stream_end"
              /\ run[r1].completions[i].answer = 200
        /\ \E i \in Synthesised(r2) : run[r2].completions[i].source = "process_error"

\* C22: every synthesised CompletedEvent carries as resume token the session
\* id found in the stream when one was seen, and otherwise the resume token the
\* run was started with; a run that had either of them never ends with an empty
\* resume token.
C22_SynthesisedCarriesBestResume ==
    \A r \in Runs : \A i \in Synthesised(r) :
        LET c == run[r].completions[i]
        IN /\ run[r].foundSession # None => c.resume = run[r].foundSession
           /\ run[r].foundSession = None => c.resume = run[r].resume
           /\ (run[r].foundSession # None \/ run[r].resume # None) => c.resume # None

\* C22 witness: a fresh run whose stream showed its session and then ended, and
\* a resumed run whose stream ended before any init line
C22_Witness ==
    \E r1, r2 \in Runs :
        /\ run[r1].resume = None /\ run[r1].foundSession # None
        /\ \E i \in Synthesised(r1) : run[r1].completions[i].resume = run[r1].foundSession
        /\ run[r2].resume # None /\ run[r2].foundSession = None
        /\ \E i \in Synthesised(r2) : run[r2].completions[i].resume = run[r2].resume

\* the stream of a run that yielded its CompletedEvent reads no line and yields
\* no event in this step
QuietAfterCompleted ==
    \A r \in Runs :
        run[r].didEmit =>
            /\ run'[r].events = run[r].events
            /\ run'[r].completions = run[r].completions
            /\ run'[r].pc # "read"
            /\ run'[r].pc # run[r].pc => nlines' = nlines

\* the stream of a run that yielded its CompletedEvent has ended
EndsAfterCompleted ==
    \A r \in Runs : run[r].didEmit ~> (run[r].pc = "done")

PhaseCount(r, aid, phase) ==
    Cardinality({i \in 1..Len(run[r].actions) :
                    run[r].actions[i] = [id |-> aid, phase |-> phase]})

ActionIds(r) == {run[r].actions[i].id : i \in 1..Len(run[r].actions)}

\* C25: the event stream of a run holds at most one started and at most one
\* completed event for every action id, whatever tool_use and tool_result
\* lines stdout delivers.
C25_StartedOnceCompletedOnce ==
    \A r \in Runs : \A aid \in ActionIds(r) :
        /\ PhaseCount(r, aid, "started") <= 1
        /\ PhaseCount(r, aid, "completed") <= 1

\* the warning actions of run r started for interactive requests
WarningActions(r) == DOMAIN run[r].asker

\* C26: a permission warning is completed by the tool_result of the tool that
\* asked, which comes right before its completion in the stream, and by no
\* other; the result of the asking tool completes every warning started for it
\* and leaves no link under its id.
C26_WarningCompletedByAskingTool ==
    \A r \in Runs :
        LET log == run[r].actions
        IN /\ \A i \in 1..Len(log) :
                 (log[i].phase = "completed" /\ log[i].id \in WarningActions(r))
                 => /\ i > 1
                    /\ run[r].asker[log[i].id] # None
                    /\ log[i - 1] = ActionCompleted(ToolAction(run[r].asker[log[i].id]))
           /\ \A w \in WarningActions(r) : \A i, j \in 1..Len(log) :
                 (/\ run[r].asker[w] # None
                  /\ log[i] = ActionStarted(w)
                  /\ i < j
                  /\ log[j] = ActionCompleted(ToolAction(run[r].asker[w]))
                  /\ \A k \in (i + 1)..(j - 1) :
                        log[k] # ActionCompleted(ToolAction(run[r].asker[w])))
                 => /\ j < Len(log)
                    /\ log[j + 1] = ActionCompleted(w)
           /\ \A w \in WarningActions(r) :
                 PhaseCount(r, w, "completed") >= 1
                 => \A t \in DOMAIN run[r].controlActionForTool :
                       run[r].controlActionForTool[t] # w

\* the calls of the callbacks whose stdin write raised out of the handler
WriteRaisedCalls ==
    {q \in DOMAIN calls : \E i \in 1..Len(calls[q]) : calls[q][i].res = "write_raised"}

MalformedLineIsSkipped ==
    \A r \in Runs :
        run'[r].malformed # run[r].malformed =>
            /\ run'[r].events = run[r].events
            /\ run'[r].actions = run[r].actions
            /\ run'[r].completions = run[r].completions
            /\ run'[r].pc = "read"
            /\ run'[r].approveQ = <<>> /\ run'[r].denyQ = <<>>
            /\ run'[r].open

\* C28: a stdout line that fails to decode yields no event and does not end
\* the stream; the run goes on reading with its response queues drained.
C28_MalformedLineSkipped == [][MalformedLineIsSkipped]_vars

\* C28 witness: after a malformed line the run decoded and translated later
\* lines, answered an automatic request and yielded the CompletedEvent
C28_Witness ==
    \E r \in Runs :
        /\ run[r].malformed >= 1
        /\ Len(run[r].events) > run[r].malformedAt
        /\ run[r].didEmit
        /\ \E q \in DOMAIN reqs :
              /\ reqs[q].run = r /\ reqs[q].class = "auto_approve"
              /\ Len(written[q]) = 1
              /\ run[r].malformedAt <= 1

\* C29: whenever no send is between adding a request id and the size test, that
\* is after every send that has finished, _HANDLED_REQUESTS holds at most 100
\* request ids, however many requests have been handled.
C29_HandledRequestsBounded == Cardinality(HandledRequests) <= HANDLED_REQUESTS_CAP

\* C29 witness: more requests than the cap have been handled, the send of the
\* last one has finished, and the set has been cleared on the way
C29_Witness ==
    /\ Cardinality({q \in DOMAIN calls :
                       \E i \in 1..Len(calls[q]) : calls[q][i].res = "ok"})
           > HANDLED_REQUESTS_CAP
    /\ \A t \in Tasks : task[t].pc = "idle"
    /\ clears = 1

\* a call of cleanup_expired_sessions with the default max_age leaves no
\* registry entry of a session registered more than max_age ago, keeps the
\* entries of the others, and returns the number of sessions it removed
SweepRemovesStaleEntries ==
    swept'.calls # swept.calls =>
        LET stale == {s \in DOMAIN ActiveRunners :
                         now - ActiveRunners[s] > SESSION_MAX_AGE_SECONDS}
        IN /\ \A s \in stale :
                 s \notin DOMAIN ActiveRunners' /\ s \notin DOMAIN SessionStdin'
           /\ \A s \in Sessions \ stale :
                 /\ s \in DOMAIN ActiveRunners
                    => s \in DOMAIN ActiveRunners' /\ ActiveRunners'[s] = ActiveRunners[s]
                 /\ s \in DOMAIN SessionStdin
                    => s \in DOMAIN SessionStdin' /\ SessionStdin'[s] = SessionStdin[s]
           /\ swept'.returned = Cardinality(stale)

\* C30: after the explicit cleanup call no ActiveRunners or SessionStdin entry
\* remains for a session registered more than 3600 s before the call, every
\* session registered more recently keeps its entries, and the call returns
\* the number of sessions removed.
C30_SweepRemovesStaleEntries == [][SweepRemovesStaleEntries]_vars

\* the part of C30 the code has: the sweep removes the stale sessions from
\* _ACTIVE_RUNNERS and no other, returns their number, and leaves
\* _SESSION_STDIN as it is
SweepRemovesStaleRunners ==
    swept'.calls # swept.calls =>
        LET stale == {s \in DOMAIN ActiveRunners :
                         now - ActiveRunners[s] > SESSION_MAX_AGE_SECONDS}
        IN /\ DOMAIN ActiveRunners' = (DOMAIN ActiveRunners) \ stale
           /\ \A s \in DOMAIN ActiveRunners' : ActiveRunners'[s] = ActiveRunners[s]
           /\ swept'.returned = Cardinality(stale)
           /\ SessionStdin' = SessionStdin

SweepTouchesActiveRunnersOnly == [][SweepRemovesStaleRunners]_vars

\* the dispatch of the callback query has returned
Dispatched == cbq.pc = "idle" /\ cbq.n >= 1

\* C31: a callback query with an id is acknowledged exactly once: with the
\* backend's toast and before handle() is invoked when the backend declares
\* answer_early and returns a toast, and otherwise after handling, also when
\* handle() raises or returns no result.
C31_AcknowledgedOnceEarlyWithToast ==
    /\ (Dispatched /\ cbq.id # None) => Len(cbq.acks) = 1
    /\ \A i \in 1..Len(cbq.acks) :
          cbq.backend = "found" =>
              IF cbq.early /\ cbq.toast # None
              THEN cbq.acks[i].text = cbq.toast /\ cbq.acks[i].handled = 0
              ELSE cbq.acks[i].handled = 1

\* what the code does for every backend: one acknowledgement per query with an
\* id and none without, after handle() whenever a backend was found, never
\* with a toast
AcknowledgedOnceAfterHandling ==
    /\ Len(cbq.acks) <= 1
    /\ Dispatched => Len(cbq.acks) = IF cbq.id # None THEN 1 ELSE 0
    /\ \A i \in 1..Len(cbq.acks) :
          /\ cbq.backend = "found" => cbq.acks[i].handled = 1
          /\ cbq.acks[i].text \in {None, "error"}

\* get_session_resume returns no token, whatever the key and the engine
NoSessionResume ==
    \A chat \in ChatIds, owner \in OwnerIds, engine \in Engines :
        GetSessionResume(chatStore, chat, owner, engine) = None

\* after a sync with another cwd than the recorded one, and until a token is
\* stored, no key has a resume token
NoResumeAfterCwdChange == chatStore.cleared => NoSessionResume

\* a sync with the recorded cwd leaves every stored session in place
SyncWithSameCwdKeepsSessions ==
    \A cwd \in Cwds :
        (chatStore.cwd = cwd /\ chatStore' = [SyncStartupCwd(chatStore, cwd)
                                                  EXCEPT !.cleared = FALSE])
        => chatStore'.chats = chatStore.chats

\* C32: after sync_startup_cwd with a cwd other than the recorded one,
\* get_session_resume returns no token for any (chat_id, owner_id, engine) until
\* a new token is stored; a sync with the recorded cwd removes no session.
C32_CwdChangeClearsSessions ==
    []NoResumeAfterCwdChange /\ [][SyncWithSameCwdKeepsSessions]_vars

\* C32 witness: tokens were stored under /repo/a for both owners, the process
\* came up in /repo/b, and no lookup finds a token
C32_Witness ==
    /\ chatStore.cleared
    /\ chatStore.everStored
    /\ chatStore.cwd = "/repo/b"
    /\ chatStore.chats = <<>>

\* the ExitPlanMode requests this step has read in a run in auto permission mode
AutoModePlanRequests ==
    {q \in DOMAIN reqs' \ DOMAIN reqs :
        reqs'[q].tool = "ExitPlanMode" /\ run[reqs'[q].run].auto}

AutoModeRequestApproved ==
    \A q \in AutoModePlanRequests :
        LET r == reqs'[q].run
        IN /\ run'[r].approveQ = Append(run[r].approveQ, q)
           /\ run'[r].denyQ = run[r].denyQ
           /\ run'[r].events = run[r].events
           /\ DiscussCooldown' = DiscussCooldown
           /\ buttons' = buttons

\* C33: in auto permission mode an ExitPlanMode request is put on the
\* auto-approve queue whatever the session's cooldown says: nothing is put on
\* the auto-deny queue, no event is yielded, no button is shown and the
\* cooldown registry is left as it was.
C33_AutoModeBypassesCooldown == [][AutoModeRequestApproved]_vars

\* an auto-mode run has read an ExitPlanMode request while the cooldown of its
\* session was active, and the request is on the auto-approve queue
C33_Witness ==
    \E q \in DOMAIN reqs :
        /\ reqs[q].tool = "ExitPlanMode"
        /\ run[reqs[q].run].auto
        /\ reqs[q].cooling
        /\ reqs[q].class = "auto_approve"
        /\ q \in {run[reqs[q].run].approveQ[i] :
                     i \in 1..Len(run[reqs[q].run].approveQ)}
        /\ run[reqs[q].run].sid \in DOMAIN DiscussCooldown

\* request q, read in this step, is on one of the queues the next drain answers
QueuedForDrain(q) ==
    LET rec == run'[reqs'[q].run]
    IN \/ \E i \in 1..Len(rec.approveQ) : rec.approveQ[i] = q
       \/ \E i \in 1..Len(rec.denyQ) : rec.denyQ[i][1] = q

\* request q, read in this step, can be answered by a callback on its buttons
AnswerableByCallback(q) ==
    /\ <<"approve", q>> \in buttons'
    /\ <<"deny", q>> \in buttons'
    /\ q \in DOMAIN RequestToSession'

\* C34: every control request read from stdout is either queued for the drain
\* that follows its line or registered in RequestToSession with its buttons
\* shown; no buttons are shown for a request no callback can answer, also when
\* the request is read before the session's StartedEvent.
C34_EveryRequestAnswerable ==
    [][ \A q \in DOMAIN reqs' \ DOMAIN reqs :
            /\ QueuedForDrain(q) \/ AnswerableByCallback(q)
            /\ <<"approve", q>> \in buttons' => q \in DOMAIN RequestToSession' ]_vars

\* the same for the requests read once factory.resume is set
RequestAnswerableOnceSessionKnown ==
    [][ \A q \in DOMAIN reqs' \ DOMAIN reqs :
            run[reqs'[q].run].factoryResume # None =>
                /\ QueuedForDrain(q) \/ AnswerableByCallback(q)
                /\ <<"approve", q>> \in buttons' => q \in DOMAIN RequestToSession' ]_vars

\* the send calls of request q that returned success
SuccessfulCalls(q) == {i \in 1..Len(calls[q]) : calls[q][i].res = "ok"}

\* C35: a request id is in HandledRequests, and a send call for it has
\* returned success, only if a response line for it was written to stdin; after
\* a failed write or with no channel the request is not marked handled.
C35_HandledOnlyIfWritten ==
    /\ \A q \in HandledRequests : q \in DOMAIN written /\ Len(written[q]) > 0
    /\ \A q \in DOMAIN calls :
          SuccessfulCalls(q) # {} => q \in DOMAIN written /\ Len(written[q]) > 0

\* the runs that end in this step
EndingRuns == {r \in Runs : run[r].pc # "done" /\ run'[r].pc = "done"}

\* C36: when a run ends, by a result line, a non-zero exit or the end of the
\* stream, DiscussCooldown and DiscussApproved hold no entry for its session, so
\* that an Approve Plan click of one run cannot approve a request of a later run.
C36_RunEndClearsDiscussState ==
    [][ \A r \in EndingRuns :
            /\ run[r].sid \notin DOMAIN DiscussCooldown'
            /\ run[r].sid \notin DiscussApproved' ]_vars

\* the same for the runs that end without having yielded their CompletedEvent
SynthesisedEndClearsDiscussState ==
    [][ \A r \in EndingRuns :
            (~run[r].didEmit /\ (run[r].foundSession # None \/ run[r].resume # None)) =>
                /\ run[r].sid \notin DOMAIN DiscussCooldown'
                /\ run[r].sid \notin DiscussApproved' ]_vars

\* no request of the resumed run is approved by an Approve Plan click; with
\* ReplanCalls callbacks every such click was made during the first run
ApprovalNotCarriedOver ==
    \A q \in DOMAIN reqs : reqs[q].run = "r2" => reqs[q].class # "discuss_approved"

\* the deny lines written for request q with the Pause & Outline Plan message
OutlineDenials(q) ==
    {i \in 1..Len(written[q]) :
        written[q][i].behavior = "deny" /\ written[q][i].message = "discuss"}

\* the requests of session s whose Pause & Outline Plan button has been clicked
PausedRequests(s) ==
    {q \in DOMAIN reqs :
        /\ run[reqs[q].run].sid = s
        /\ \/ \E i \in 1..Len(calls[q]) : calls[q][i].kind = "discuss"
           \/ \E t \in Tasks : task[t].pc = "sending" /\ task[t].q = q
                                 /\ task[t].kind = "discuss"}

\* C37: however often the Pause & Outline Plan callback of a request is
\* delivered, one after the other or overlapping, one deny is written for the
\* request and the cooldown count of the session goes up by one per request.
C37_RepeatedPauseCountsOnce ==
    /\ \A q \in DOMAIN written : Cardinality(OutlineDenials(q)) <= 1
    /\ \A s \in DOMAIN DiscussCooldown :
          DiscussCooldown[s].count <= Cardinality(PausedRequests(s))

\* the cooldown count alone: one per request, however the deliveries overlap
CooldownCountsOncePerRequest ==
    \A s \in DOMAIN DiscussCooldown :
        DiscussCooldown[s].count <= Cardinality(PausedRequests(s))

PendingAskIds == {PendingAsk[i] : i \in 1..Len(PendingAsk)}

\* C38: PendingAskRequests holds a request id only while the AskUserQuestion
\* request has no response written and its run has not ended: the Approve and
\* Deny buttons, a text answer and the end of the session all remove it.
C38_PendingAskOnlyWhileAnswerable ==
    \A q \in PendingAskIds :
        /\ reqs[q].tool = "AskUserQuestion"
        /\ Len(written[q]) = 0
        /\ run[reqs[q].run].pc # "done"

\* a request answered by text is no longer pending
AnsweredByTextIsRemoved ==
    \A q \in DOMAIN calls :
        (\/ \E i \in 1..Len(calls[q]) : calls[q][i].kind = "answer"
         \/ \E t \in Tasks : task[t].pc = "sending" /\ task[t].q = q
                               /\ task[t].kind = "answer")
            => q \notin PendingAskIds

\* the scheduler has just made the pass of minute sched.tickedAt
Ticked == sched.pc = "sleep"

\* C39: in every minute the scheduler ticks in, a cron whose schedule matches
\* is dispatched exactly once and a cron whose schedule does not match is not
\* dispatched, also when the minute has the hour and minute of the cron's
\* previous firing on an earlier day.
C39_FiresOncePerMatchingMinute ==
    Ticked =>
        \A id \in DOMAIN sched.crons :
            sched.fired[id] =
                IF CronMatches(sched.crons[id], DateTime(sched.tickedAt)) THEN 1 ELSE 0

\* the same on the first day, and on every day for the crons that match more
\* than one minute of the day
FiresOnceWithinTheDay ==
    Ticked =>
        \A id \in DOMAIN sched.crons :
            (sched.tickedAt < MinutesPerDay \/ id \in {"minutely", "hourly", "halfhourly"})
                => sched.fired[id] =
                     IF CronMatches(sched.crons[id], DateTime(sched.tickedAt))
                     THEN 1 ELSE 0

\* a cron is never dispatched in a minute it does not match, nor twice in a pass
NeverFiresOffSchedule ==
    Ticked =>
        \A id \in DOMAIN sched.crons :
            /\ sched.fired[id] <= 1
            /\ sched.fired[id] = 1 => CronMatches(sched.crons[id], DateTime(sched.tickedAt))

\* the webhook the last request was routed to
LastWebhook == Webhooks[hook.last.req.path]

\* the tokens the bucket of key held for the last request when it arrived, in
\* units of 1 / HookWindow tokens
TokensBefore(key) ==
    IF key \in DOMAIN hook.before
    THEN Min(HookRate * HookWindow,
             hook.before[key].tokens
                 + (hook.last.at - hook.before[key].last) * HookRate)
    ELSE HookRate * HookWindow

SizeOk == hook.last.req.declared <= MaxBodyBytes /\ hook.last.req.bodyLen <= MaxBodyBytes
AuthOk == LastWebhook.auth = "none" \/ hook.last.req.token = LastWebhook.secret
OwnRateOk == TokensBefore(LastWebhook.id) >= HookWindow
RateOk == OwnRateOk /\ TokensBefore(GlobalKey) >= HookWindow
JsonOk == hook.last.req.bodyLen = 0 \/ hook.last.req.json \in {"dict", "list"}
FilterOk ==
    LastWebhook.event_filter = None \/ hook.last.req.event = LastWebhook.event_filter

\* the response the order size, authentication, rate limits, JSON, event
\* filter gives the last request
StatusInOrder ==
    IF ~SizeOk THEN {"413", "500"}
    ELSE IF ~AuthOk THEN {"401"}
    ELSE IF ~RateOk THEN {"429"}
    ELSE IF ~JsonOk THEN {"400"}
    ELSE IF ~FilterOk THEN {"filtered"}
    ELSE {"202", "500"}

\* the buckets the limiter holds after a request that took one token of each
\* of its two buckets
BothConsumed ==
    /\ hook.buckets[LastWebhook.id].tokens = TokensBefore(LastWebhook.id) - HookWindow
    /\ hook.buckets[GlobalKey].tokens = TokensBefore(GlobalKey) - HookWindow

\* the tokens of the bucket of key as the last request left them, refill included
TokensAfter(key) ==
    IF key \in DOMAIN hook.buckets THEN hook.buckets[key].tokens
    ELSE HookRate * HookWindow

WebhookChecksInOrder ==
    (hook.n > 0 /\ hook.last.req.path \in DOMAIN Webhooks) =>
        /\ hook.last.status \in StatusInOrder
        /\ hook.last.dispatched = 1 =>
              SizeOk /\ AuthOk /\ RateOk /\ JsonOk /\ FilterOk /\ BothConsumed
        /\ hook.last.status \in {"413", "401", "429", "400", "filtered"} =>
              hook.last.dispatched = 0
        /\ (~SizeOk \/ ~AuthOk) =>
              /\ hook.buckets = hook.before
              /\ hook.last.dispatched = 0
        /\ (SizeOk /\ AuthOk /\ ~OwnRateOk) =>
              TokensAfter(GlobalKey) = IF GlobalKey \in DOMAIN hook.before
                                       THEN hook.before[GlobalKey].tokens
                                       ELSE HookRate * HookWindow

\* C40: a webhook request is dispatched only if it passed the size check,
\* authentication, the per-webhook and the global rate limit, JSON parsing and
\* the event filter, and its response is that of the first check it fails in
\* this order; a rejected request is not dispatched and runs none of the later
\* checks: a request refused for its size or its credentials leaves the rate
\* limiter as it was.
C40_RejectedRequestStopsThere == WebhookChecksInOrder

\* a request with a wrong bearer token has been answered 401 at a time when
\* both of its buckets held a token, and the limiter is as it was
C40_Witness ==
    /\ hook.n > 0
    /\ hook.last.req.path = "/hooks/a"
    /\ hook.last.status = "401"
    /\ hook.before # <<>>
    /\ RateOk
    /\ hook.buckets = hook.before

\* a request has been dispatched, and a later one has been refused by the
\* global limit after its own bucket let it pass
DispatchedThenGloballyLimited ==
    /\ hook.dispatches >= 1
    /\ hook.last.req.path \in DOMAIN Webhooks
    /\ hook.last.status = "429"
    /\ SizeOk /\ AuthOk /\ OwnRateOk

====
